---- MODULE Spec2Model ----
(***************************************************************************)
(* Container subsystem of the meshoptimizer Python package: the zip        *)
(* archive layouts of ziputils.py and arrayutils.py (single mesh,          *)
(* multiple named arrays, combined bundle), modelled over a file system    *)
(* that maps a path to a file.  Every function is an operator that computes*)
(* the file it leaves behind and the value it returns or the exception it  *)
(* raises; every action is one call of one function.                       *)
(***************************************************************************)
EXTENDS Integers, Sequences, FiniteSets, TLC

VARIABLES
    fs,     \* path -> file: absent, a zip archive (its entries in order), or raw bytes
    origin, \* path -> the call that left the file now at the path
    last,   \* the last call: function, arguments, returned value, raised exception
    threads, \* thread -> the call it is making, step by step: where it is, the
             \* handles it holds, its result
    heap    \* object identity -> the Mesh object, or None before it is made

vars == <<fs, origin, last, threads, heap>>

(***************************************************************************)
(* Python values.  A value is a record tagged by its type.                 *)
(***************************************************************************)
None == [t |-> "none"]
PyInt(n) == [t |-> "int", v |-> n]
PyStr(s) == [t |-> "str", v |-> s]
PyBytes(b) == [t |-> "bytes", v |-> b]
PyList(s) == [t |-> "list", v |-> s]
PyTuple(s) == [t |-> "tuple", v |-> s]
\* a dict is its items in insertion order, keys distinct
PyDict(items) == [t |-> "dict", v |-> items]
PyDtype(name) == [t |-> "dtype", v |-> name]
\* a str holding a JSON document, and the bytes that are its UTF-8 encoding
JsonStr(doc) == [t |-> "text", v |-> doc]
Utf8(doc) == [t |-> "utf8", v |-> doc]

Item(k, x) == [k |-> k, v |-> x]

Keys(d) == {d.v[i].k : i \in 1..Len(d.v)}

DictHas(d, k) == k \in Keys(d)

DictGet(d, k) == d.v[CHOOSE i \in 1..Len(d.v) : d.v[i].k = k].v

\* d[k] = x: an existing key keeps its place, a new key goes last
DictSet(d, k, x) ==
    IF DictHas(d, k)
    THEN PyDict([i \in 1..Len(d.v) |-> IF d.v[i].k = k THEN Item(k, x) ELSE d.v[i]])
    ELSE PyDict(Append(d.v, Item(k, x)))

(***************************************************************************)
(* Exceptions.  context is the kind of the exception that was being        *)
(* handled when this one was raised ("" when none was).                    *)
(***************************************************************************)
Exc(kind, msg, context) == [t |-> "exc", kind |-> kind, msg |-> msg, context |-> context]

Raised(r) == r.exc # None

Returned(r) == r.exc = None

Return(x) == [exc |-> None, ret |-> x]

Raise(e) == [exc |-> e, ret |-> None]

(***************************************************************************)
(* json.dumps and json.loads.  dumps turns tuples and lists into arrays    *)
(* and None into null, and raises TypeError on bytes and dtype objects;    *)
(* loads turns arrays into lists.                                          *)
(***************************************************************************)
RECURSIVE JsonSerializable(_)
JsonSerializable(x) ==
    CASE x.t \in {"none", "int", "str"} -> TRUE
      [] x.t \in {"list", "tuple"} -> \A i \in 1..Len(x.v) : JsonSerializable(x.v[i])
      [] x.t = "dict" -> \A i \in 1..Len(x.v) : JsonSerializable(x.v[i].v)
      [] OTHER -> FALSE

RECURSIVE JsonDoc(_)
JsonDoc(x) ==
    CASE x.t = "none" -> [t |-> "null"]
      [] x.t = "int" -> [t |-> "number", v |-> x.v]
      [] x.t = "str" -> [t |-> "string", v |-> x.v]
      [] x.t \in {"list", "tuple"} ->
            [t |-> "array", v |-> [i \in 1..Len(x.v) |-> JsonDoc(x.v[i])]]
      [] x.t = "dict" ->
            [t |-> "object", v |-> [i \in 1..Len(x.v) |-> Item(x.v[i].k, JsonDoc(x.v[i].v))]]

json_dumps(x) == JsonStr(JsonDoc(x))

RECURSIVE JsonValue(_)
JsonValue(doc) ==
    CASE doc.t = "null" -> None
      [] doc.t = "number" -> PyInt(doc.v)
      [] doc.t = "string" -> PyStr(doc.v)
      [] doc.t = "array" -> PyList([i \in 1..Len(doc.v) |-> JsonValue(doc.v[i])])
      [] doc.t = "object" ->
            PyDict([i \in 1..Len(doc.v) |-> Item(doc.v[i].k, JsonValue(doc.v[i].v))])

\* json.loads of the bytes of an entry: only the encoding of a JSON text parses
json_loads(data) ==
    IF data.t = "utf8" THEN Return(JsonValue(data.v))
    ELSE Raise(Exc("JSONDecodeError", "Expecting value", ""))

(***************************************************************************)
(* Files and zip archives.                                                 *)
(***************************************************************************)
Absent == [kind |-> "absent"]
ZipOf(entries) == [kind |-> "zip", entries |-> entries]
RawOf(bytes) == [kind |-> "raw", bytes |-> bytes]
\* an archive open for writing: its directory is written when it is closed
Unfinished == [kind |-> "unfinished"]

Entry(name, data) == [name |-> name, data |-> data]

\* ZipFile.namelist()
namelist(entries) == {entries[i].name : i \in 1..Len(entries)}

\* ZipFile.read(name) / ZipFile.open(name).read(): the entry written last under
\* that name; KeyError when there is none
ZipRead(entries, name) ==
    IF name \in namelist(entries)
    THEN LET i == CHOOSE j \in 1..Len(entries) :
                      /\ entries[j].name = name
                      /\ \A k \in (j+1)..Len(entries) : entries[k].name # name
         IN Return(entries[i].data)
    ELSE Raise(Exc("KeyError", name, ""))

\* ZipFile(zip_path, 'r')
ZipOpenRead(file) ==
    CASE file.kind = "absent" -> Raise(Exc("FileNotFoundError", "No such file or directory", ""))
      [] file.kind \in {"raw", "unfinished"} ->
            Raise(Exc("BadZipFile", "File is not a zip file", ""))
      [] file.kind = "zip" -> Return(file.entries)

\* A ZipFile open for writing: the entries written so far and the exception
\* that ended the with block, if any.  Opening with 'w' truncates the file.
ZipOpenWrite == [entries |-> <<>>, exc |-> None]

\* ZipFile.writestr(name, data): a str is encoded, bytes are stored, and
\* anything else (None) raises TypeError from len(data).  A statement after
\* an exception is not run.
writestr(z, name, data) ==
    IF z.exc # None THEN z
    ELSE CASE data.t = "text" -> [z EXCEPT !.entries = Append(@, Entry(name, Utf8(data.v)))]
           [] data.t \in {"bytes", "utf8"} -> [z EXCEPT !.entries = Append(@, Entry(name, data))]
           [] OTHER -> [z EXCEPT !.exc = Exc("TypeError", "object has no len()", "")]

\* zipf.writestr(name, json.dumps(obj, indent=2))
writestr_json(z, name, obj) ==
    IF z.exc # None THEN z
    ELSE IF ~JsonSerializable(obj)
    THEN [z EXCEPT !.exc = Exc("TypeError", "Object is not JSON serializable", "")]
    ELSE writestr(z, name, json_dumps(obj))

(***************************************************************************)
(* data.py: EncodedMesh                                                    *)
(***************************************************************************)
EncodedMesh(vertices, indices, vertex_count, vertex_size, index_count, index_size) ==
    [t |-> "EncodedMesh", vertices |-> vertices, indices |-> indices,
     vertex_count |-> vertex_count, vertex_size |-> vertex_size,
     index_count |-> index_count, index_size |-> index_size]

(***************************************************************************)
(* ziputils.py: save_encoded_mesh_to_zip, load_encoded_mesh_from_zip       *)
(***************************************************************************)
MeshMetadata(m) ==
    LET base == PyDict(<<Item("vertex_count", m.vertex_count),
                         Item("vertex_size", m.vertex_size),
                         Item("index_size", m.index_size)>>)
    IN IF m.index_count # None
       THEN DictSet(base, "index_count", m.index_count)
       ELSE base

\* faulty variant: the indices entry is written only when indices is truthy
MeshEntriesTruthy(m, vfn, ifn, mfn) ==
    LET z0 == ZipOpenWrite
        z1 == writestr(z0, vfn, m.vertices)
        z2 == IF m.indices # None /\ m.indices # PyBytes(<<>>)
              THEN writestr(z1, ifn, m.indices) ELSE z1
    IN writestr_json(z2, mfn, MeshMetadata(m))

\* the with block of save_encoded_mesh_to_zip
MeshEntries(m, vfn, ifn, mfn) ==
    LET z0 == ZipOpenWrite
        z1 == writestr(z0, vfn, m.vertices)
        z2 == IF m.indices # None THEN writestr(z1, ifn, m.indices) ELSE z1
    IN writestr_json(z2, mfn, MeshMetadata(m))

\* The outcome of a save: write is the file left at zip_path, or None when the
\* call never opened it.
save_encoded_mesh_to_zip(m, vfn, ifn, mfn) ==
    LET z == MeshEntries(m, vfn, ifn, mfn)
    IN [write |-> ZipOf(z.entries), exc |-> z.exc, ret |-> None]

\* metadata[key]
Subscript(d, key) ==
    IF d.t # "dict" THEN Raise(Exc("TypeError", "indices must be integers", ""))
    ELSE IF DictHas(d, key) THEN Return(DictGet(d, key))
    ELSE Raise(Exc("KeyError", key, ""))

\* metadata.get(key)
DictGetOrNone(d, key) == IF DictHas(d, key) THEN DictGet(d, key) ELSE None

\* faulty variant: index_count is read with metadata["index_count"]
MeshFromMetadataStrict(metadata, vertices, indices) ==
    LET vc == Subscript(metadata, "vertex_count")
        vs == Subscript(metadata, "vertex_size")
        ic == Subscript(metadata, "index_count")
        is == Subscript(metadata, "index_size")
    IN IF Raised(vc) THEN vc
       ELSE IF Raised(vs) THEN vs
       ELSE IF Raised(ic) THEN ic
       ELSE IF Raised(is) THEN is
       ELSE Return(EncodedMesh(vertices, indices, vc.ret, vs.ret, ic.ret, is.ret))

\* the EncodedMesh(...) constructor call of load_encoded_mesh_from_zip
MeshFromMetadata(metadata, vertices, indices) ==
    LET vc == Subscript(metadata, "vertex_count")
        vs == Subscript(metadata, "vertex_size")
        is == Subscript(metadata, "index_size")
    IN IF Raised(vc) THEN vc
       ELSE IF Raised(vs) THEN vs
       ELSE IF Raised(is) THEN is
       ELSE Return(EncodedMesh(vertices, indices, vc.ret, vs.ret,
                               DictGetOrNone(metadata, "index_count"), is.ret))

load_encoded_mesh_from_zip(file, vfn, ifn, mfn) ==
    LET zf == ZipOpenRead(file)
    IN IF Raised(zf) THEN zf
       ELSE LET md == ZipRead(zf.ret, mfn)
                metadata == IF Raised(md) THEN md ELSE json_loads(md.ret)
                vertices == ZipRead(zf.ret, vfn)
                indices == IF ifn \in namelist(zf.ret) THEN ZipRead(zf.ret, ifn).ret ELSE None
            IN IF Raised(metadata) THEN metadata
               ELSE IF Raised(vertices) THEN vertices
               ELSE MeshFromMetadata(metadata.ret, vertices.ret, indices)

(***************************************************************************)
(* arrayutils.py: EncodedArray, encode_array, decode_array                 *)
(***************************************************************************)
EncodedArray(data, shape, dtype, itemsize) ==
    [t |-> "EncodedArray", data |-> data, shape |-> shape, dtype |-> dtype,
     itemsize |-> itemsize]

\* a numpy array: its shape (a tuple of ints), its dtype and its elements in
\* row-major order
NdArray(shape, dtype, values) ==
    [t |-> "ndarray", shape |-> shape, dtype |-> dtype, values |-> values]

RECURSIVE Product(_)
Product(s) == IF s = <<>> THEN 1 ELSE s[1].v * Product(Tail(s))

Abs(n) == IF n < 0 THEN -n ELSE n

RECURSIVE Pow2(_)
Pow2(e) == IF e = 0 THEN 1 ELSE 2 * Pow2(e - 1)

\* the spacing of float32 values around n: 1 up to 2^24, doubling with each
\* further power of two
Float32Exact == Pow2(24)

RECURSIVE Ulp(_, _)
Ulp(n, step) == IF Abs(n) < step * Float32Exact THEN step ELSE Ulp(n, 2 * step)

\* ndarray.astype(np.float32) of an integral value: round to the nearest
\* float32, ties to the even significand
ToFloat32(n) ==
    LET u == Ulp(n, 1)
        lo == (n \div u) * u
        r == n - lo
    IN IF r = 0 THEN n
       ELSE IF 2 * r < u THEN lo
       ELSE IF 2 * r > u THEN lo + u
       ELSE IF (lo \div u) % 2 = 0 THEN lo ELSE lo + u

\* str(dtype)
DtypeStr(dtype) == PyStr(dtype.v)

DtypeNames == {"float32", "float64", "int32"}

\* np.dtype(x): a known type name gives the dtype, None gives float64
np_dtype(x) ==
    CASE x.t = "str" /\ x.v \in DtypeNames -> Return(PyDtype(x.v))
      [] x.t = "dtype" -> Return(x)
      [] x.t = "none" -> Return(PyDtype("float64"))
      [] OTHER -> Raise(Exc("TypeError", "data type not understood", ""))

\* tuple(x) of a list or a tuple; None and ints are not iterable.  (No writer
\* puts a string or an object under "shape", so those are not told apart.)
py_tuple(x) ==
    CASE x.t \in {"list", "tuple"} -> Return(PyTuple(x.v))
      [] OTHER -> Raise(Exc("TypeError", "object is not iterable", ""))

\* the first exception raised by a sequence of evaluations, in their order
FirstRaised(rs) ==
    LET bad == {i \in 1..Len(rs) : Raised(rs[i])}
    IN rs[CHOOSE i \in bad : \A j \in bad : i <= j]

AnyRaised(rs) == \E i \in 1..Len(rs) : Raised(rs[i])

PyTrue == [t |-> "bool", v |-> TRUE]

(***************************************************************************)
(* ziputils.py: save_combined_data_to_zip                                  *)
(***************************************************************************)
\* faulty variant: an empty array map passes validation
SaveCombinedValidateNoEmptyCheck(encoded_mesh, encoded_arrays) ==
    IF encoded_mesh = None THEN Exc("ValueError", "encoded_mesh cannot be None", "")
    ELSE None

\* the two checks before the try block: the exception raised, or None
SaveCombinedValidate(encoded_mesh, encoded_arrays) ==
    IF encoded_mesh = None THEN Exc("ValueError", "encoded_mesh cannot be None", "")
    ELSE IF encoded_arrays = None \/ encoded_arrays.v = <<>>
    THEN Exc("ValueError", "encoded_arrays dictionary cannot be empty", "")
    ELSE None

\* mesh_metadata of save_combined_data_to_zip: index_count is always a key
CombinedMeshMetadata(m) ==
    PyDict(<<Item("vertex_count", m.vertex_count),
             Item("vertex_size", m.vertex_size),
             Item("index_count", m.index_count),
             Item("index_size", m.index_size)>>)

\* faulty variant: itemsize is left out of an array's metadata record
CombinedArrayRecordNoItemsize(encoded_array) ==
    PyDict(<<Item("shape", encoded_array.shape),
             Item("dtype", DtypeStr(encoded_array.dtype))>>)

\* arrays_metadata[name] of save_combined_data_to_zip
CombinedArrayRecord(encoded_array) ==
    PyDict(<<Item("shape", encoded_array.shape),
             Item("dtype", DtypeStr(encoded_array.dtype)),
             Item("itemsize", encoded_array.itemsize)>>)

CombinedArraysMetadata(encoded_arrays) ==
    PyDict([i \in 1..Len(encoded_arrays.v) |->
               Item(encoded_arrays.v[i].k, CombinedArrayRecord(encoded_arrays.v[i].v))])

ArrayEntryName(arrays_dir, name) == arrays_dir \o "/" \o name \o ".bin"

\* the writestr calls of the for loop, from the i-th item on
RECURSIVE WriteArrayData(_, _, _, _)
WriteArrayData(z, arrays_dir, items, i) ==
    IF i > Len(items) THEN z
    ELSE WriteArrayData(writestr(z, ArrayEntryName(arrays_dir, items[i].k), items[i].v.data),
                        arrays_dir, items, i + 1)

\* the with block of save_combined_data_to_zip
CombinedEntries(encoded_mesh, encoded_arrays, metadata, mesh_dir, arrays_dir) ==
    LET z1 == writestr(ZipOpenWrite, mesh_dir \o "/vertices.bin", encoded_mesh.vertices)
        z2 == writestr(z1, mesh_dir \o "/indices.bin", encoded_mesh.indices)
        z3 == writestr_json(z2, mesh_dir \o "/metadata.json", CombinedMeshMetadata(encoded_mesh))
        z4 == WriteArrayData(z3, arrays_dir, encoded_arrays.v, 1)
        z5 == writestr_json(z4, arrays_dir \o "/metadata.json",
                            CombinedArraysMetadata(encoded_arrays))
    IN IF metadata # None THEN writestr_json(z5, "metadata.json", metadata) ELSE z5

\* faulty variant: the exception is passed on as it is
SaveCombinedExceptPassThrough(e) == e

\* except Exception as e: raise IOError(...)
SaveCombinedExcept(e) ==
    Exc("IOError", "Error saving combined data to zip file", e.kind)

\* can_open: whether the operating system lets zip_path be opened for writing
save_combined_data_to_zip(encoded_mesh, encoded_arrays, metadata, mesh_dir, arrays_dir, can_open) ==
    LET invalid == SaveCombinedValidate(encoded_mesh, encoded_arrays)
        z == CombinedEntries(encoded_mesh, encoded_arrays, metadata, mesh_dir, arrays_dir)
    IN IF invalid # None THEN [write |-> None, exc |-> invalid, ret |-> None]
       ELSE IF ~can_open
       THEN [write |-> None, ret |-> None,
             exc |-> SaveCombinedExcept(Exc("PermissionError", "Permission denied", ""))]
       ELSE IF z.exc # None
       THEN [write |-> ZipOf(z.entries), exc |-> SaveCombinedExcept(z.exc), ret |-> None]
       ELSE [write |-> ZipOf(z.entries), exc |-> None, ret |-> PyTrue]

(***************************************************************************)
(* ziputils.py: load_combined_data_from_zip                                *)
(***************************************************************************)
\* the EncodedMesh(...) constructor call of load_combined_data_from_zip
CombinedMeshFromMetadata(metadata, vertices, indices) ==
    LET vc == Subscript(metadata, "vertex_count")
        vs == Subscript(metadata, "vertex_size")
        ic == Subscript(metadata, "index_count")
        is == Subscript(metadata, "index_size")
    IN IF AnyRaised(<<vc, vs, ic, is>>) THEN FirstRaised(<<vc, vs, ic, is>>)
       ELSE Return(EncodedMesh(vertices, indices, vc.ret, vs.ret, ic.ret, is.ret))

\* faulty variant: the shape is kept as the list json.loads returned
LoadCombinedArrayListShape(entries, arrays_dir, name, metadata) ==
    LET data == ZipRead(entries, ArrayEntryName(arrays_dir, name))
        shape == Subscript(metadata, "shape")
        dtname == Subscript(metadata, "dtype")
        dtype == np_dtype(dtname.ret)
        itemsize == Subscript(metadata, "itemsize")
        steps == <<data, shape, dtname, dtype, itemsize>>
    IN IF AnyRaised(steps) THEN FirstRaised(steps)
       ELSE Return(EncodedArray(data.ret, shape.ret, dtype.ret, itemsize.ret))

\* one turn of the for loop of load_combined_data_from_zip
LoadCombinedArray(entries, arrays_dir, name, metadata) ==
    LET data == ZipRead(entries, ArrayEntryName(arrays_dir, name))
        shapelist == Subscript(metadata, "shape")
        shape == py_tuple(shapelist.ret)
        dtname == Subscript(metadata, "dtype")
        dtype == np_dtype(dtname.ret)
        itemsize == Subscript(metadata, "itemsize")
        steps == <<data, shapelist, shape, dtname, dtype, itemsize>>
    IN IF AnyRaised(steps) THEN FirstRaised(steps)
       ELSE Return(EncodedArray(data.ret, shape.ret, dtype.ret, itemsize.ret))

\* arrays_metadata.items()
DictItems(d) ==
    IF d.t = "dict" THEN Return(d.v)
    ELSE Raise(Exc("AttributeError", "object has no attribute items", ""))

\* the for loop: the first exception, or the dict of all arrays
LoadCombinedArrays(entries, arrays_dir, arrays_metadata) ==
    LET items == DictItems(arrays_metadata)
        each == [i \in 1..Len(items.ret) |->
                    LoadCombinedArray(entries, arrays_dir, items.ret[i].k, items.ret[i].v)]
    IN IF Raised(items) THEN items
       ELSE IF AnyRaised(each) THEN FirstRaised(each)
       ELSE Return(PyDict([i \in 1..Len(each) |-> Item(items.ret[i].k, each[i].ret)]))

\* faulty variant: a missing top-level metadata.json is not tolerated
LoadGeneralMetadataRequired(entries) ==
    LET data == ZipRead(entries, "metadata.json")
    IN IF Raised(data) THEN data ELSE json_loads(data.ret)

\* the inner try block: a missing top-level metadata.json gives None
LoadGeneralMetadata(entries) ==
    LET data == ZipRead(entries, "metadata.json")
    IN IF Raised(data) THEN Return(None) ELSE json_loads(data.ret)

\* the with block of load_combined_data_from_zip
LoadCombinedBody(file, mesh_dir, arrays_dir) ==
    LET zf == ZipOpenRead(file)
    IN IF Raised(zf) THEN zf
       ELSE LET entries == zf.ret
                vertices == ZipRead(entries, mesh_dir \o "/vertices.bin")
                indices == ZipRead(entries, mesh_dir \o "/indices.bin")
                mdata == ZipRead(entries, mesh_dir \o "/metadata.json")
                mesh_metadata == json_loads(mdata.ret)
                encoded_mesh == CombinedMeshFromMetadata(mesh_metadata.ret,
                                                         vertices.ret, indices.ret)
                adata == ZipRead(entries, arrays_dir \o "/metadata.json")
                arrays_metadata == json_loads(adata.ret)
                encoded_arrays == IF Raised(arrays_metadata) THEN arrays_metadata
                                  ELSE LoadCombinedArrays(entries, arrays_dir,
                                                          arrays_metadata.ret)
                general_metadata == LoadGeneralMetadata(entries)
                steps == <<vertices, indices, mdata, mesh_metadata, encoded_mesh,
                           adata, arrays_metadata, encoded_arrays, general_metadata>>
            IN IF AnyRaised(steps) THEN FirstRaised(steps)
               ELSE Return(PyTuple(<<encoded_mesh.ret, encoded_arrays.ret,
                                     general_metadata.ret>>))

\* faulty variant: every exception of the with block is reported as an IOError
LoadCombinedExceptAllIOError(e) ==
    Exc("IOError", "Error loading combined data from zip file", e.kind)

\* the three except clauses of load_combined_data_from_zip
LoadCombinedExcept(e) ==
    CASE e.kind = "BadZipFile" -> Exc("ValueError", "Invalid zip file", e.kind)
      [] e.kind = "KeyError" -> Exc("ValueError", "Missing expected file in zip", e.kind)
      [] OTHER -> Exc("IOError", "Error loading combined data from zip file", e.kind)

load_combined_data_from_zip(file, mesh_dir, arrays_dir) ==
    LET r == LoadCombinedBody(file, mesh_dir, arrays_dir)
    IN IF file.kind = "absent"
       THEN Raise(Exc("FileNotFoundError", "Zip file not found", ""))
       ELSE IF Raised(r) THEN Raise(LoadCombinedExcept(r.exc))
       ELSE r
(***************************************************************************)
(* The external vertex codec, as the container logic relies on it: the     *)
(* stream carries a format version and the items, the encoder reports the  *)
(* bytes it wrote, and the decoder reports a status, 0 on success.         *)
(***************************************************************************)
FormatVersion == 1

\* meshopt_encodeVertexBuffer: the bytes written for item_count items
meshopt_encodeVertexBuffer(items, item_count, item_size) ==
    <<FormatVersion>> \o SubSeq(items, 1, item_count)

\* meshopt_encodeVertexBufferBound: the largest size the encoder may need,
\* the header, the items and a tail of one item
meshopt_encodeVertexBufferBound(item_count, item_size) == 1 + item_count + item_size

\* meshopt_decodeVertexBuffer: the status and the items decoded
meshopt_decodeVertexBuffer(item_count, item_size, buffer) ==
    IF buffer = <<>> \/ buffer[1] # FormatVersion THEN [status |-> -1, items |-> <<>>]
    ELSE IF Len(buffer) - 1 # item_count THEN [status |-> -3, items |-> <<>>]
    ELSE [status |-> 0, items |-> Tail(buffer)]

(***************************************************************************)
(* arrayutils.py: encode_array, decode_array                               *)
(***************************************************************************)
\* itemsize of a float32 element
Float32ItemSize == 4

\* flattened.astype(np.float32), skipped for a float32 array
Flattened(array) ==
    IF array.dtype # PyDtype("float32")
    THEN [i \in 1..Len(array.values) |-> ToFloat32(array.values[i])]
    ELSE array.values

\* faulty variant: the dtype recorded is that of the converted array
encode_array_ConvertedDtype(array) ==
    IF array.t # "ndarray"
    THEN Raise(Exc("AttributeError", "object has no attribute shape", ""))
    ELSE LET flattened == Flattened(array)
             buffer == meshopt_encodeVertexBuffer(flattened, Len(flattened), Float32ItemSize)
         IN IF Len(buffer) = 0 THEN Raise(Exc("RuntimeError", "Failed to encode array", ""))
            ELSE Return(EncodedArray(PyBytes(buffer), array.shape, PyDtype("float32"),
                                     PyInt(Float32ItemSize)))

\* lib.meshopt_encodeVertexBuffer on a zeroed buffer of bound bytes: the
\* buffer afterwards and the size reported.  A primitive that fails writes
\* nothing and reports 0.
EncoderCall(flattened, item_count, item_size, fails) ==
    LET bound == meshopt_encodeVertexBufferBound(item_count, item_size)
        written == IF fails THEN <<>>
                   ELSE meshopt_encodeVertexBuffer(flattened, item_count, item_size)
    IN [buffer |-> written \o [i \in 1..(bound - Len(written)) |-> 0],
        result_size |-> Len(written),
        item_count |-> item_count,
        item_size |-> item_size]

\* faulty variant: bytes(buffer), all of the buffer
EncodedDataWholeBuffer(call) == PyBytes(call.buffer)

\* bytes(buffer[:result_size])
EncodedData(call) == PyBytes(SubSeq(call.buffer, 1, call.result_size))

\* faulty variant: array.itemsize, the width of the elements before conversion
ItemSizeBeforeConversion(array) ==
    IF array.dtype = PyDtype("float64") THEN 8 ELSE Float32ItemSize

\* flattened.itemsize: flattened is float32 whatever the dtype of the array
FlattenedItemSize(array) == Float32ItemSize

\* the call encode_array makes of the primitive
EncoderCallOf(array, fails) ==
    EncoderCall(Flattened(array), Len(Flattened(array)), FlattenedItemSize(array), fails)

\* encode_array with a primitive that fails or does not
encode_array_with(array, fails) ==
    IF array.t # "ndarray"
    THEN Raise(Exc("AttributeError", "object has no attribute shape", ""))
    ELSE LET call == EncoderCallOf(array, fails)
         IN IF call.result_size = 0
            THEN Raise(Exc("RuntimeError", "Failed to encode array", ""))
            ELSE Return(EncodedArray(EncodedData(call), array.shape, array.dtype,
                                     PyInt(call.item_size)))

encode_array(array) == encode_array_with(array, FALSE)

\* np.frombuffer(encoded_array.data, dtype=np.uint8)
FromBuffer(data) == IF data.t = "bytes" THEN data.v ELSE <<>>

\* the call decode_array makes of the primitive, and the status it returns
DecoderCall(encoded_array) ==
    LET total_items == Product(encoded_array.shape.v)
        result == meshopt_decodeVertexBuffer(total_items, encoded_array.itemsize.v,
                                             FromBuffer(encoded_array.data))
    IN [item_count |-> total_items,
        item_size |-> encoded_array.itemsize.v,
        status |-> result.status,
        \* np.zeros(float_count), overwritten when the primitive succeeds
        destination |-> IF result.status = 0 THEN result.items
                        ELSE [i \in 1..total_items |-> 0]]

\* faulty variant: the status is not looked at
DecodeFailureIgnored(result) == None

\* if result != 0: raise RuntimeError(f"Failed to decode array: error code {result}")
DecodeFailure(result) ==
    IF result # 0
    THEN Exc("RuntimeError", "Failed to decode array: error code " \o ToString(result), "")
    ELSE None

\* the primitive is asked to write more bytes than the destination has
WritesPastDestination(call) ==
    call.item_count * call.item_size > call.item_count * Float32ItemSize

decode_array(encoded_array) ==
    LET call == DecoderCall(encoded_array)
    IN IF encoded_array.shape.v = <<>>
       THEN \* np.prod(()) is the float 1.0, which np.zeros refuses as a size
            Raise(Exc("TypeError", "float object cannot be interpreted as an integer", ""))
       ELSE IF DecodeFailure(call.status) # None
       THEN Raise(DecodeFailure(call.status))
       ELSE Return(NdArray(encoded_array.shape, encoded_array.dtype, call.destination))

\* What a call of decode_array can end with.  A primitive that writes past
\* the destination has undefined behaviour: it may report a status as on a
\* destination large enough, report an error, or bring the process down.
decode_array_outcomes(encoded_array) ==
    IF /\ encoded_array.shape.v # <<>>
       /\ WritesPastDestination(DecoderCall(encoded_array))
    THEN {decode_array(encoded_array),
          Raise(DecodeFailure(0 - 2)),
          Raise(Exc("Crash", "process terminated", ""))}
    ELSE {decode_array(encoded_array)}

(***************************************************************************)
(* arrayutils.py: save_arrays_to_zip, load_arrays_from_zip                 *)
(***************************************************************************)
\* all_metadata[name] of save_arrays_to_zip
ArraysRecord(encoded_array, name) ==
    PyDict(<<Item("shape", encoded_array.shape),
             Item("dtype", DtypeStr(encoded_array.dtype)),
             Item("itemsize", encoded_array.itemsize),
             Item("filename", PyStr(name \o ".bin"))>>)

\* the for loop of save_arrays_to_zip from the i-th item on: the archive and
\* all_metadata; an exception of encode_array ends the with block
RECURSIVE SaveArraysLoop(_, _, _, _)
SaveArraysLoop(z, items, i, all_metadata) ==
    IF i > Len(items) \/ z.exc # None THEN [z |-> z, all_metadata |-> all_metadata]
    ELSE LET encoded_array == encode_array(items[i].v)
             name == items[i].k
         IN IF Raised(encoded_array)
            THEN [z |-> [z EXCEPT !.exc = encoded_array.exc], all_metadata |-> all_metadata]
            ELSE SaveArraysLoop(writestr(z, name \o ".bin", encoded_array.ret.data),
                                items, i + 1,
                                DictSet(all_metadata, name,
                                        ArraysRecord(encoded_array.ret, name)))

\* the with block of save_arrays_to_zip
ArraysEntries(arrays) ==
    LET loop == SaveArraysLoop(ZipOpenWrite, arrays.v, 1, PyDict(<<>>))
    IN writestr_json(loop.z, "metadata.json", loop.all_metadata)

\* faulty variant: the arrays are encoded before the archive is opened, and
\* a failure leaves the file as it was
save_arrays_to_zip_EncodedFirst(arrays) ==
    LET z == ArraysEntries(arrays)
    IN [write |-> IF z.exc # None THEN None ELSE ZipOf(z.entries), exc |-> z.exc,
        ret |-> None]

save_arrays_to_zip(arrays) ==
    LET z == ArraysEntries(arrays)
    IN [write |-> ZipOf(z.entries), exc |-> z.exc, ret |-> None]

\* faulty variant: the entry read is <name>.bin, whatever filename says
LoadArraysItemRecomputed(entries, name, metadata) ==
    LET filename == Subscript(metadata, "filename")
        data == ZipRead(entries, name \o ".bin")
        shapelist == Subscript(metadata, "shape")
        shape == py_tuple(shapelist.ret)
        dtname == Subscript(metadata, "dtype")
        dtype == np_dtype(dtname.ret)
        itemsize == Subscript(metadata, "itemsize")
        steps == <<filename, data, shapelist, shape, dtname, dtype, itemsize>>
    IN IF AnyRaised(steps) THEN FirstRaised(steps)
       ELSE decode_array(EncodedArray(data.ret, shape.ret, dtype.ret, itemsize.ret))

\* one turn of the for loop of load_arrays_from_zip
LoadArraysItem(entries, name, metadata) ==
    LET filename == Subscript(metadata, "filename")
        data == IF Raised(filename) THEN filename
                ELSE IF filename.ret.t # "str"
                THEN Raise(Exc("TypeError", "entry name is not a str", ""))
                ELSE ZipRead(entries, filename.ret.v)
        shapelist == Subscript(metadata, "shape")
        shape == py_tuple(shapelist.ret)
        dtname == Subscript(metadata, "dtype")
        dtype == np_dtype(dtname.ret)
        itemsize == Subscript(metadata, "itemsize")
        steps == <<filename, data, shapelist, shape, dtname, dtype, itemsize>>
    IN IF AnyRaised(steps) THEN FirstRaised(steps)
       ELSE decode_array(EncodedArray(data.ret, shape.ret, dtype.ret, itemsize.ret))

load_arrays_from_zip(file) ==
    LET zf == ZipOpenRead(file)
    IN IF Raised(zf) THEN zf
       ELSE LET mdata == ZipRead(zf.ret, "metadata.json")
                all_metadata == json_loads(mdata.ret)
                items == DictItems(all_metadata.ret)
                each == [i \in 1..Len(items.ret) |->
                            LoadArraysItem(zf.ret, items.ret[i].k, items.ret[i].v)]
            IN IF AnyRaised(<<mdata, all_metadata, items>>)
               THEN FirstRaised(<<mdata, all_metadata, items>>)
               ELSE IF AnyRaised(each) THEN FirstRaised(each)
               ELSE Return(PyDict([i \in 1..Len(each) |-> Item(items.ret[i].k, each[i].ret)]))

(***************************************************************************)
(* Text and bytes.  A character is its code point and a byte its value.    *)
(***************************************************************************)
\* str(np.dtype([('e', '<f4')])) with U+00E9 for the e: "[('.', '<f4')]", the
\* name of a structured dtype whose field name is not ASCII
StructuredDtypeName == "[(U+00E9, <f4)]"

\* the characters of the strs that occur in array metadata
CodePoints(s) ==
    CASE s = "shape" -> <<115, 104, 97, 112, 101>>
      [] s = "dtype" -> <<100, 116, 121, 112, 101>>
      [] s = "itemsize" -> <<105, 116, 101, 109, 115, 105, 122, 101>>
      [] s = "float32" -> <<102, 108, 111, 97, 116, 51, 50>>
      [] s = "int32" -> <<105, 110, 116, 51, 50>>
      [] s = "float64" -> <<102, 108, 111, 97, 116, 54, 52>>
      [] s = StructuredDtypeName -> <<91, 40, 39, 233, 39, 44, 32, 39, 60, 102, 52, 39, 41, 93>>

\* str(n) of a non-negative int
RECURSIVE Digits(_)
Digits(n) == IF n < 10 THEN <<48 + n>> ELSE Digits(n \div 10) \o <<48 + (n % 10)>>

HexDigit(d) == IF d < 10 THEN 48 + d ELSE 87 + d

\* faulty variant: json.dumps(..., ensure_ascii=False) leaves every character
JsonEscapeNone(c) == <<c>>

\* json.dumps of one character of a str: a character that is not ASCII
\* becomes \uXXXX (ensure_ascii is True by default)
JsonEscape(c) ==
    IF c < 128 THEN <<c>>
    ELSE <<92, 117, HexDigit(c \div 4096), HexDigit((c \div 256) % 16),
           HexDigit((c \div 16) % 16), HexDigit(c % 16)>>

RECURSIVE Concat(_)
Concat(ss) == IF ss = <<>> THEN <<>> ELSE ss[1] \o Concat(Tail(ss))

\* sep.join(ss)
RECURSIVE Join(_, _)
Join(ss, sep) ==
    IF ss = <<>> THEN <<>>
    ELSE IF Len(ss) = 1 THEN ss[1]
    ELSE ss[1] \o sep \o Join(Tail(ss), sep)

JsonStringChars(s) ==
    <<34>> \o Concat([i \in 1..Len(CodePoints(s)) |-> JsonEscape(CodePoints(s)[i])]) \o <<34>>

\* the characters of json.dumps(x) with the default separators ", " and ": "
RECURSIVE JsonChars(_)
JsonChars(doc) ==
    CASE doc.t = "null" -> <<110, 117, 108, 108>>
      [] doc.t = "number" -> Digits(doc.v)
      [] doc.t = "string" -> JsonStringChars(doc.v)
      [] doc.t = "array" ->
            <<91>> \o Join([i \in 1..Len(doc.v) |-> JsonChars(doc.v[i])], <<44, 32>>) \o <<93>>
      [] doc.t = "object" ->
            <<123>>
            \o Join([i \in 1..Len(doc.v) |->
                        JsonStringChars(doc.v[i].k) \o <<58, 32>> \o JsonChars(doc.v[i].v)],
                    <<44, 32>>)
            \o <<125>>

\* str.encode('utf-8'): one byte for an ASCII character, two up to U+07FF
Utf8Encode(chars) ==
    Concat([i \in 1..Len(chars) |->
               IF chars[i] < 128 THEN <<chars[i]>>
               ELSE <<192 + (chars[i] \div 64), 128 + (chars[i] % 64)>>])

\* bytes.decode('utf-8'): the characters, or UnicodeDecodeError on a byte
\* that neither starts nor continues a character
Utf8Decode(bytes) ==
    LET IsContinuation(i) == bytes[i] \in 128..191
        IsLead(i) == bytes[i] \in 194..223
        WellFormed(i) ==
            \/ bytes[i] < 128 /\ (i = 1 \/ ~IsLead(i - 1))
            \/ IsLead(i) /\ i < Len(bytes) /\ IsContinuation(i + 1) /\ (i = 1 \/ ~IsLead(i - 1))
            \/ IsContinuation(i) /\ i > 1 /\ IsLead(i - 1)
        starts == {i \in 1..Len(bytes) : ~IsContinuation(i)}
        start(k) == CHOOSE i \in starts : Cardinality({j \in starts : j <= i}) = k
        char(i) == IF bytes[i] < 128 THEN bytes[i]
                   ELSE (bytes[i] - 192) * 64 + (bytes[i + 1] - 128)
    IN IF \A i \in 1..Len(bytes) : WellFormed(i)
       THEN Return([k \in 1..Cardinality(starts) |-> char(start(k))])
       ELSE Raise(Exc("UnicodeDecodeError", "invalid byte", ""))

\* struct.pack('<I', n): four bytes, least significant first; struct.error
\* when n does not fit
StructPack(n) ==
    IF n < 0 \/ n \div 65536 >= 65536 THEN Raise(Exc("struct.error", "argument out of range", ""))
    ELSE Return(<<n % 256, (n \div 256) % 256, (n \div 65536) % 256, (n \div 16777216) % 256>>)

\* faulty variant: struct.pack('>I', n), most significant byte first
StructUnpackBigEndian(bytes) ==
    IF Len(bytes) # 4 THEN Raise(Exc("struct.error", "unpack requires a buffer of 4 bytes", ""))
    ELSE Return(bytes[4] + 256 * bytes[3] + 65536 * bytes[2] + 16777216 * bytes[1])

\* struct.unpack('<I', bytes)[0]: struct.error unless given four bytes
StructUnpack(bytes) ==
    IF Len(bytes) # 4 THEN Raise(Exc("struct.error", "unpack requires a buffer of 4 bytes", ""))
    ELSE Return(bytes[1] + 256 * bytes[2] + 65536 * bytes[3] + 16777216 * bytes[4])

\* f.read(n) at offset pos: the bytes there are, at most n
FileRead(bytes, pos, n) ==
    SubSeq(bytes, pos + 1, IF pos + n > Len(bytes) THEN Len(bytes) ELSE pos + n)

(***************************************************************************)
(* json.loads of a str, for the values array metadata is made of: null,    *)
(* non-negative ints, strs, arrays and objects.                            *)
(***************************************************************************)
MetadataStrs ==
    {"shape", "dtype", "itemsize", "float32", "int32", "float64", StructuredDtypeName}

\* the str with these characters
StrOf(chars) ==
    IF \E s \in MetadataStrs : CodePoints(s) = chars
    THEN CHOOSE s \in MetadataStrs : CodePoints(s) = chars
    ELSE "?"

Parsed(doc, next) == [ok |-> TRUE, doc |-> doc, next |-> next]

ParseError == [ok |-> FALSE]

RECURSIVE SkipSpace(_, _)
SkipSpace(chars, i) ==
    IF i <= Len(chars) /\ chars[i] \in {32, 9, 10, 13} THEN SkipSpace(chars, i + 1) ELSE i

RECURSIVE ScanDigits(_, _, _)
ScanDigits(chars, i, n) ==
    IF i <= Len(chars) /\ chars[i] \in 48..57
    THEN ScanDigits(chars, i + 1, 10 * n + (chars[i] - 48))
    ELSE Parsed([t |-> "number", v |-> n], i)

HexValue(c) ==
    CASE c \in 48..57 -> c - 48
      [] c \in 97..102 -> c - 87
      [] c \in 65..70 -> c - 55
      [] OTHER -> -1

\* the character a backslash and c stand for, -1 when there is none
EscapedChar(c) ==
    CASE c \in {34, 92, 47} -> c
      [] c = 98 -> 8
      [] c = 102 -> 12
      [] c = 110 -> 10
      [] c = 114 -> 13
      [] c = 116 -> 9
      [] OTHER -> -1

\* the characters of a string from its i-th on, up to the closing quote
RECURSIVE ScanString(_, _, _)
ScanString(chars, i, acc) ==
    IF i > Len(chars) \/ chars[i] < 32 THEN ParseError
    ELSE IF chars[i] = 34 THEN Parsed(acc, i + 1)
    ELSE IF chars[i] # 92 THEN ScanString(chars, i + 1, Append(acc, chars[i]))
    ELSE IF i + 1 > Len(chars) THEN ParseError
    ELSE IF chars[i + 1] = 117
    THEN IF /\ i + 5 <= Len(chars)
            /\ \A k \in 2..5 : HexValue(chars[i + k]) >= 0
         THEN ScanString(chars, i + 6,
                         Append(acc, 4096 * HexValue(chars[i + 2]) + 256 * HexValue(chars[i + 3])
                                     + 16 * HexValue(chars[i + 4]) + HexValue(chars[i + 5])))
         ELSE ParseError
    ELSE IF EscapedChar(chars[i + 1]) >= 0
    THEN ScanString(chars, i + 2, Append(acc, EscapedChar(chars[i + 1])))
    ELSE ParseError

RECURSIVE ParseValue(_, _)
RECURSIVE ParseItems(_, _, _)
RECURSIVE ParseMembers(_, _, _)
ParseValue(chars, from) ==
    LET i == SkipSpace(chars, from)
    IN IF i > Len(chars) THEN ParseError
       ELSE CASE chars[i] = 110 ->
                    IF i + 3 <= Len(chars) /\ SubSeq(chars, i, i + 3) = <<110, 117, 108, 108>>
                    THEN Parsed([t |-> "null"], i + 4)
                    ELSE ParseError
              [] chars[i] \in 48..57 -> ScanDigits(chars, i, 0)
              [] chars[i] = 34 ->
                    LET s == ScanString(chars, i + 1, <<>>)
                    IN IF s.ok THEN Parsed([t |-> "string", v |-> StrOf(s.doc)], s.next)
                       ELSE ParseError
              [] chars[i] = 91 ->
                    LET j == SkipSpace(chars, i + 1)
                    IN IF j <= Len(chars) /\ chars[j] = 93
                       THEN Parsed([t |-> "array", v |-> <<>>], j + 1)
                       ELSE ParseItems(chars, i + 1, <<>>)
              [] chars[i] = 123 ->
                    LET j == SkipSpace(chars, i + 1)
                    IN IF j <= Len(chars) /\ chars[j] = 125
                       THEN Parsed([t |-> "object", v |-> <<>>], j + 1)
                       ELSE ParseMembers(chars, i + 1, <<>>)
              [] OTHER -> ParseError

ParseItems(chars, from, acc) ==
    LET value == ParseValue(chars, from)
        j == SkipSpace(chars, value.next)
    IN IF ~value.ok THEN ParseError
       ELSE IF j > Len(chars) THEN ParseError
       ELSE IF chars[j] = 44 THEN ParseItems(chars, j + 1, Append(acc, value.doc))
       ELSE IF chars[j] = 93 THEN Parsed([t |-> "array", v |-> Append(acc, value.doc)], j + 1)
       ELSE ParseError

ParseMembers(chars, from, acc) ==
    LET i == SkipSpace(chars, from)
        key == IF i <= Len(chars) /\ chars[i] = 34 THEN ScanString(chars, i + 1, <<>>)
               ELSE ParseError
        colon == SkipSpace(chars, key.next)
        value == IF colon <= Len(chars) /\ chars[colon] = 58 THEN ParseValue(chars, colon + 1)
                 ELSE ParseError
        j == SkipSpace(chars, value.next)
        members == Append(acc, Item(StrOf(key.doc), value.doc))
    IN IF ~key.ok THEN ParseError
       ELSE IF ~value.ok THEN ParseError
       ELSE IF j > Len(chars) THEN ParseError
       ELSE IF chars[j] = 44 THEN ParseMembers(chars, j + 1, members)
       ELSE IF chars[j] = 125 THEN Parsed([t |-> "object", v |-> members], j + 1)
       ELSE ParseError

\* json.loads(chars): one value, with nothing but white space around it
json_loads_str(chars) ==
    LET value == ParseValue(chars, 1)
    IN IF value.ok /\ SkipSpace(chars, value.next) > Len(chars)
       THEN Return(JsonValue(value.doc))
       ELSE Raise(Exc("JSONDecodeError", "Expecting value", ""))

(***************************************************************************)
(* arrayutils.save_encoded_array_to_file and load_encoded_array_from_file: *)
(* a four-byte length, the metadata as JSON, the encoded data.             *)
(***************************************************************************)
ArrayMetadata(encoded_array) ==
    PyDict(<<Item("shape", encoded_array.shape),
             Item("dtype", DtypeStr(encoded_array.dtype)),
             Item("itemsize", encoded_array.itemsize)>>)

\* json.dumps(metadata)
MetadataJson(metadata) == JsonChars(JsonDoc(metadata))

\* the result of the call; write is the file the path holds afterwards, None
\* when the file was never opened
save_encoded_array_to_file(encoded_array) ==
    LET metadata == ArrayMetadata(encoded_array)
        metadata_json == MetadataJson(metadata)
        length == StructPack(Len(metadata_json))
    IN IF ~JsonSerializable(metadata)
       THEN [write |-> None, ret |-> None,
             exc |-> Exc("TypeError", "Object is not JSON serializable", "")]
       ELSE IF Raised(length)
       THEN [write |-> RawOf(<<>>), exc |-> length.exc, ret |-> None]
       ELSE IF encoded_array.data.t # "bytes"
       THEN [write |-> RawOf(length.ret \o Utf8Encode(metadata_json)), ret |-> None,
             exc |-> Exc("TypeError", "a bytes-like object is required", "")]
       ELSE [write |-> RawOf(length.ret \o Utf8Encode(metadata_json) \o encoded_array.data.v),
             exc |-> None, ret |-> None]

\* open(file_path, 'rb'): the bytes of the file
OpenRead(file) ==
    CASE file.kind = "absent" -> Raise(Exc("FileNotFoundError", "No such file or directory", ""))
      [] file.kind = "raw" -> Return(file.bytes)

load_encoded_array_from_file(file) ==
    LET f == OpenRead(file)
        metadata_length == StructUnpack(FileRead(f.ret, 0, 4))
        metadata_bytes == FileRead(f.ret, 4, metadata_length.ret)
        metadata_json == Utf8Decode(metadata_bytes)
        metadata == json_loads_str(metadata_json.ret)
        pos == 4 + Len(metadata_bytes)
        data == FileRead(f.ret, pos, Len(f.ret) - pos)
        shapelist == Subscript(metadata.ret, "shape")
        shape == py_tuple(shapelist.ret)
        dtname == Subscript(metadata.ret, "dtype")
        dtype == np_dtype(dtname.ret)
        itemsize == Subscript(metadata.ret, "itemsize")
    IN IF Raised(f) THEN f
       ELSE IF Raised(metadata_length) THEN metadata_length
       ELSE IF Raised(metadata_json) THEN metadata_json
       ELSE IF Raised(metadata) THEN metadata
       ELSE IF AnyRaised(<<shapelist, shape, dtname, dtype, itemsize>>)
       THEN FirstRaised(<<shapelist, shape, dtname, dtype, itemsize>>)
       ELSE Return(EncodedArray(PyBytes(data), shape.ret, dtype.ret, itemsize.ret))

(***************************************************************************)
(* arrayutils.save_encoded_array_to_zip and load_encoded_array_from_zip    *)
(***************************************************************************)
save_encoded_array_to_zip(encoded_array, data_filename, metadata_filename) ==
    LET metadata == ArrayMetadata(encoded_array)
        data == writestr(ZipOpenWrite, data_filename, encoded_array.data)
        z == writestr_json(data, metadata_filename, metadata)
    IN [write |-> ZipOf(z.entries), exc |-> z.exc, ret |-> None]

load_encoded_array_from_zip(file, data_filename, metadata_filename) ==
    LET zipf == ZipOpenRead(file)
        mdata == ZipRead(zipf.ret, metadata_filename)
        metadata == json_loads(mdata.ret)
        data == ZipRead(zipf.ret, data_filename)
        shapelist == Subscript(metadata.ret, "shape")
        shape == py_tuple(shapelist.ret)
        dtname == Subscript(metadata.ret, "dtype")
        dtype == np_dtype(dtname.ret)
        itemsize == Subscript(metadata.ret, "itemsize")
    IN IF Raised(zipf) THEN zipf
       ELSE IF Raised(mdata) THEN mdata
       ELSE IF Raised(metadata) THEN metadata
       ELSE IF Raised(data) THEN data
       ELSE IF AnyRaised(<<shapelist, shape, dtname, dtype, itemsize>>)
       THEN FirstRaised(<<shapelist, shape, dtname, dtype, itemsize>>)
       ELSE Return(EncodedArray(data.ret, shape.ret, dtype.ret, itemsize.ret))

(***************************************************************************)
(* The inputs of the calls.                                                *)
(***************************************************************************)
Paths == {"p.zip", "q.zip"}

\* the path the single-mesh and combined-bundle calls are made on
OnePath == {"p.zip"}

\* the largest number of arrays in one map
MaxArrays == 2

Vertices == PyBytes(<<1, 10, 11>>)

\* indices: absent, empty, or a stream; index_count: absent, 0, or a count
EncodedMeshes ==
    {EncodedMesh(Vertices, indices, PyInt(2), PyInt(12), index_count, PyInt(4)) :
        indices \in {None, PyBytes(<<>>), PyBytes(<<1, 5>>)},
        index_count \in {None, PyInt(0), PyInt(3)}}

\* the meshes given to the combined bundle: indexed with and without a count,
\* with an empty index stream, and non-indexed
BundleMeshes ==
    {m \in EncodedMeshes :
        \/ m.indices = PyBytes(<<1, 5>>) /\ m.index_count \in {None, PyInt(3)}
        \/ m.indices = PyBytes(<<>>) /\ m.index_count = PyInt(0)
        \/ m.indices = None /\ m.index_count = None}

ArrayNames == <<"a", "b", "c">>

Shape(dims) == PyTuple([i \in 1..Len(dims) |-> PyInt(dims[i])])

\* the encoded array given under each name
EncodedArrayOf(name) ==
    CASE name = "a" -> EncodedArray(PyBytes(<<1, 7, 8>>), Shape(<<2>>), PyDtype("float32"), PyInt(4))
      [] name = "b" -> EncodedArray(PyBytes(<<>>), Shape(<<1, 2>>), PyDtype("int32"), PyInt(4))
      [] name = "c" -> EncodedArray(PyBytes(<<1, 9>>), Shape(<<>>), PyDtype("float64"), PyInt(4))

\* the numpy array given under each name: one, two and no dimensions;
\* 16777217 is 2^24 + 1
NdArrayOf(name) ==
    CASE name = "a" -> NdArray(Shape(<<2>>), PyDtype("float32"), <<7, 8>>)
      [] name = "b" -> NdArray(Shape(<<1, 2>>), PyDtype("int32"), <<3, 16777217>>)
      [] name = "c" -> NdArray(Shape(<<>>), PyDtype("float64"), <<9>>)

\* the increasing sequences of positions of ArrayNames, at most MaxArrays long
RECURSIVE Picks(_, _)
Picks(from, n) ==
    IF n = 0 \/ from > Len(ArrayNames) THEN {<<>>}
    ELSE Picks(from + 1, n) \cup {<<from>> \o s : s \in Picks(from + 1, n - 1)}

\* the sequences of distinct names the maps are built over
NameSeqs == {[i \in 1..Len(s) |-> ArrayNames[s[i]]] : s \in Picks(1, MaxArrays)}

EncodedArrayMaps ==
    {PyDict([i \in 1..Len(ns) |-> Item(ns[i], EncodedArrayOf(ns[i]))]) : ns \in NameSeqs}

NdArrayMaps ==
    {PyDict([i \in 1..Len(ns) |-> Item(ns[i], NdArrayOf(ns[i]))]) : ns \in NameSeqs}

\* maps of arrays with a value that is no array and cannot be encoded, as
\* the first, the second and the third item
PartialMaps ==
    {PyDict(<<Item("n", None), Item("a", NdArrayOf("a"))>>),
     PyDict(<<Item("a", NdArrayOf("a")), Item("n", None)>>),
     PyDict(<<Item("a", NdArrayOf("a")), Item("b", NdArrayOf("b")), Item("n", None),
              Item("c", NdArrayOf("c"))>>)}

\* general metadata: none, an empty object, an object, and a dict json.dumps refuses
GoodMetadata == PyDict(<<Item("k", PyList(<<PyInt(1)>>))>>)
BadMetadata == PyDict(<<Item("k", PyBytes(<<1>>))>>)
Metadatas == {None, PyDict(<<>>), GoodMetadata, BadMetadata}

\* (mesh_dir, arrays_dir): the defaults, two other directories, and one
\* directory for both
Dirs == {<<"mesh", "arrays">>, <<"m", "x">>, <<"d", "d">>}

\* (vertices_filename, indices_filename, metadata_filename): the defaults, the
\* custom names of test_custom_filenames, and two choices with equal names
Filenames ==
    {<<"vertices.bin", "indices.bin", "metadata.json">>,
     <<"custom_vertices.bin", "custom_indices.bin", "custom_metadata.json">>,
     <<"vertices.bin", "vertices.bin", "metadata.json">>,
     <<"vertices.bin", "indices.bin", "indices.bin">>}

\* the paths of single-array files
FilePaths == {"e.bin"}

\* a record whose dtype is a structured one with a field name that is not ASCII
StructuredEncodedArray ==
    EncodedArray(PyBytes(<<200, 5>>), Shape(<<1>>), PyDtype(StructuredDtypeName), PyInt(4))

\* the records saved one at a time: data of three bytes, no data, no
\* dimensions, a dtype name that is not ASCII
EncodedArrays ==
    {EncodedArrayOf(ArrayNames[i]) : i \in 1..Len(ArrayNames)} \cup {StructuredEncodedArray}

\* the arrays given to the codec: those of the archives, three dimensions
\* of integers up to 2^24 in magnitude, no element
CodecArrays ==
    {NdArrayOf(ArrayNames[i]) : i \in 1..Len(ArrayNames)}
    \cup {NdArray(Shape(<<2, 1, 2>>), PyDtype("int32"),
                  <<0 - Float32Exact, Float32Exact, 0 - 5, 0>>),
          NdArray(Shape(<<0>>), PyDtype("float32"), <<>>)}

\* the records encode_array returns for them
CodecRecords == {encode_array(a).ret : a \in CodecArrays}

\* the records given to decode_array that encode_array did not return:
\* those saved one at a time, and one with an item less than its shape says
DecodedRecords ==
    EncodedArrays
    \cup {EncodedArray(PyBytes(<<FormatVersion, 7>>), Shape(<<2>>), PyDtype("float32"), PyInt(4))}

\* the records of another producer's files: the items are eight bytes wide
ForeignRecords ==
    {EncodedArray(PyBytes(<<FormatVersion, 7, 8>>), Shape(<<2>>), PyDtype("float64"), PyInt(8)),
     EncodedArray(PyBytes(<<FormatVersion, 7>>), Shape(<<1>>), PyDtype("float64"), PyInt(8))}

\* data_filename and metadata_filename: the defaults and a custom pair
ArrayFilenames == {<<"data.bin", "metadata.json">>, <<"d.bin", "m.json">>}

(***************************************************************************)
(* __init__.py: class Mesh.  A Mesh object lives in the heap under its     *)
(* identity; vertices is a float32 array of rows and indices a uint32      *)
(* array or None.                                                          *)
(***************************************************************************)
\* the identities of the Mesh objects
Objects == {"m1", "m2"}

\* a reference to the object id
Ref(id) == [t |-> "ref", id |-> id]

\* len(array): the size of the first axis
ArrayLen(array) == array.shape.v[1].v

\* the number of elements of one item of the first axis
RowLen(array) == Product(Tail(array.shape.v))

\* np.asarray(array, dtype=np.float32)
AsFloat32(array) ==
    NdArray(array.shape, PyDtype("float32"),
            [i \in 1..Len(array.values) |-> ToFloat32(array.values[i])])

\* np.asarray(array, dtype=np.uint32), of indices below 2^32
AsUInt32(array) == NdArray(array.shape, PyDtype("uint32"), array.values)

\* np.zeros_like(array)
zeros_like(array) ==
    NdArray(array.shape, array.dtype, [i \in 1..Len(array.values) |-> 0])

\* array[:count]
Prefix(array, count) ==
    LET n == IF count < ArrayLen(array) THEN count ELSE ArrayLen(array)
    IN NdArray(PyTuple(<<PyInt(n)>> \o Tail(array.shape.v)), array.dtype,
               SubSeq(array.values, 1, n * RowLen(array)))

\* len(indices) if indices is not None else 0
IndexCountOf(indices) == IF indices # None THEN ArrayLen(indices) ELSE 0

\* Mesh.__init__
Mesh(vertices, indices) ==
    [t |-> "Mesh",
     vertices |-> AsFloat32(vertices),
     indices |-> IF indices # None THEN AsUInt32(indices) ELSE None,
     vertex_count |-> ArrayLen(vertices),
     index_count |-> IndexCountOf(indices)]

(***************************************************************************)
(* The external primitives of optimizer.py and simplifier.py, as Mesh      *)
(* relies on them: each fills the destination it is given, and the two     *)
(* that shrink the mesh return the count they kept.                        *)
(***************************************************************************)
\* the k-th triangle of the index values
Triangle(values, k) == SubSeq(values, 3 * k - 2, 3 * k)

\* the triangles in reverse order
ReverseTriangles(values) ==
    LET n == Len(values) \div 3
    IN Concat([k \in 1..n |-> Triangle(values, n + 1 - k)])

\* optimize_vertex_cache: the contents it may leave in the destination, the
\* same triangles in another order
optimize_vertex_cache(indices, index_count, vertex_count) ==
    {SubSeq(indices, 1, index_count), ReverseTriangles(SubSeq(indices, 1, index_count))}

\* optimize_overdraw: as optimize_vertex_cache, a reordering of the triangles
optimize_overdraw(indices, vertices, index_count, vertex_count, vertex_size, threshold) ==
    {SubSeq(indices, 1, index_count), ReverseTriangles(SubSeq(indices, 1, index_count))}

\* the vertices the indices use, in the order of their first use
RECURSIVE FirstUse(_, _)
FirstUse(indices, seen) ==
    IF indices = <<>> THEN seen
    ELSE IF \E k \in 1..Len(seen) : seen[k] = indices[1]
    THEN FirstUse(Tail(indices), seen)
    ELSE FirstUse(Tail(indices), Append(seen, indices[1]))

\* the place of vertex v in the order of first use, counted from 0
PlaceOf(used, v) == (CHOOSE k \in 1..Len(used) : used[k] = v) - 1

\* optimize_vertex_fetch: the vertices in use are moved to the front of the
\* destination in the order of their first use and the index buffer it is
\* given is rewritten to their new places; returns how many are in use
optimize_vertex_fetch(indices, vertices, index_count, vertex_count, vertex_size) ==
    LET used == FirstUse(SubSeq(indices, 1, index_count), <<>>)
        width == vertex_size \div Float32ItemSize
        rows == Concat([k \in 1..Len(used) |->
                    SubSeq(vertices, used[k] * width + 1, (used[k] + 1) * width)])
    IN [count |-> Len(used),
        destination |-> rows \o [i \in 1..(vertex_count - Len(used)) * width |-> 0],
        indices |-> [i \in 1..Len(indices) |->
                        IF i <= index_count THEN PlaceOf(used, indices[i]) ELSE indices[i]]]

\* simplify: a prefix of whole triangles is kept, no fewer than the target
\* allows and no more than were given; returns the count kept
simplify(indices, vertices, index_count, vertex_count, vertex_size, target_index_count, target_error) ==
    {[count |-> c,
      destination |-> SubSeq(indices, 1, c) \o [i \in 1..(index_count - c) |-> 0]] :
        c \in {c \in 0..index_count :
                  c % 3 = 0 /\ c >= (target_index_count \div 3) * 3}}

(***************************************************************************)
(* __init__.py: the methods of Mesh.  An outcome is the object after the   *)
(* call, what the call returned or raised, and the external primitives it  *)
(* invoked.                                                                *)
(***************************************************************************)
Outcome(self, r, invoked) == [self |-> self, exc |-> r.exc, ret |-> r.ret, invoked |-> invoked]

\* faulty variant: the missing indices are reported as a RuntimeError
NoIndicesAsRuntimeError(what) == Exc("RuntimeError", "Mesh has no indices to " \o what, "")

\* raise ValueError("Mesh has no indices to ...")
NoIndices(what) == Exc("ValueError", "Mesh has no indices to " \o what, "")

\* self.vertices.itemsize * self.vertices.shape[1]
VertexSizeOf(self) == Float32ItemSize * self.vertices.shape.v[2].v

\* an array of the shape and dtype of array holding values
Filled(array, values) == NdArray(array.shape, array.dtype, values)

\* Mesh.optimize_vertex_cache
Mesh_optimize_vertex_cache(id, self) ==
    IF self.indices = None
    THEN {Outcome(self, Raise(NoIndices("optimize")), <<>>)}
    ELSE {Outcome([self EXCEPT !.indices = Filled(zeros_like(self.indices), optimized)],
                  Return(Ref(id)), <<"optimize_vertex_cache">>) :
            optimized \in optimize_vertex_cache(self.indices.values, self.index_count,
                                                self.vertex_count)}

\* Mesh.optimize_overdraw
Mesh_optimize_overdraw(id, self, threshold) ==
    IF self.indices = None
    THEN {Outcome(self, Raise(NoIndices("optimize")), <<>>)}
    ELSE {Outcome([self EXCEPT !.indices = Filled(zeros_like(self.indices), optimized)],
                  Return(Ref(id)), <<"optimize_overdraw">>) :
            optimized \in optimize_overdraw(self.indices.values, self.vertices.values,
                                            self.index_count, self.vertex_count,
                                            VertexSizeOf(self), threshold)}

\* Mesh.optimize_vertex_fetch
Mesh_optimize_vertex_fetch(id, self) ==
    IF self.indices = None
    THEN {Outcome(self, Raise(NoIndices("optimize")), <<>>)}
    ELSE LET r == optimize_vertex_fetch(self.indices.values, self.vertices.values,
                                        self.index_count, self.vertex_count,
                                        VertexSizeOf(self))
             optimized_vertices == Filled(zeros_like(self.vertices), r.destination)
         IN {Outcome([self EXCEPT !.indices = Filled(self.indices, r.indices),
                                  !.vertices = Prefix(optimized_vertices, r.count),
                                  !.vertex_count = r.count],
                     Return(Ref(id)), <<"optimize_vertex_fetch">>)}

\* faulty variant: index_count keeps the count the mesh had before
SimplifiedIndexCountStale(self, new_index_count) == self.index_count

\* self.index_count = new_index_count
SimplifiedIndexCount(self, new_index_count) == new_index_count

\* int(self.index_count * target_ratio), the ratio in hundredths
TargetIndexCount(self, target_ratio) == (self.index_count * target_ratio) \div 100

\* np.zeros(count, dtype=np.uint32) holding values
UInt32Array(values) == NdArray(PyTuple(<<PyInt(Len(values))>>), PyDtype("uint32"), values)

\* Mesh.simplify
Mesh_simplify(id, self, target_ratio, target_error) ==
    IF self.indices = None
    THEN {Outcome(self, Raise(NoIndices("simplify")), <<>>)}
    ELSE {Outcome([self EXCEPT !.indices = Prefix(UInt32Array(r.destination), r.count),
                               !.index_count = SimplifiedIndexCount(self, r.count)],
                  Return(Ref(id)), <<"simplify">>) :
            r \in simplify(self.indices.values, self.vertices.values, self.index_count,
                           self.vertex_count, VertexSizeOf(self),
                           TargetIndexCount(self, target_ratio), target_error)}

(***************************************************************************)
(* The external mesh codec of encoder.py and decoder.py, as Mesh relies on *)
(* it.  A vertex travels as one item of the vertex stream, its coordinates *)
(* packed; the index stream keeps the triangles, each turned to begin with *)
(* its smallest index.                                                     *)
(***************************************************************************)
\* the coordinates of a vertex packed into one item
RECURSIVE PackRow(_)
PackRow(row) ==
    IF row = <<>> THEN 0 ELSE PackRow(SubSeq(row, 1, Len(row) - 1)) * 10 + row[Len(row)]

\* the width coordinates packed in an item
RECURSIVE UnpackRow(_, _)
UnpackRow(item, width) ==
    IF width = 0 THEN <<>> ELSE Append(UnpackRow(item \div 10, width - 1), item % 10)

\* a triangle turned to begin with its smallest index
Rotated(tri) ==
    IF tri[1] <= tri[2] /\ tri[1] <= tri[3] THEN tri
    ELSE IF tri[2] <= tri[3] THEN <<tri[2], tri[3], tri[1]>>
    ELSE <<tri[3], tri[1], tri[2]>>

\* meshopt_encodeIndexBuffer: the bytes written, none when index_count is
\* not a multiple of 3
meshopt_encodeIndexBuffer(indices, index_count) ==
    IF index_count % 3 # 0 THEN <<>>
    ELSE <<FormatVersion>> \o
         Concat([k \in 1..(index_count \div 3) |-> Rotated(Triangle(indices, k))])

\* meshopt_decodeIndexBuffer: the status and the indices decoded
meshopt_decodeIndexBuffer(index_count, index_size, buffer) ==
    IF buffer = <<>> \/ buffer[1] # FormatVersion THEN [status |-> -1, indices |-> <<>>]
    ELSE IF index_count % 3 # 0 \/ Len(buffer) - 1 # index_count
    THEN [status |-> -3, indices |-> <<>>]
    ELSE [status |-> 0, indices |-> Tail(buffer)]

\* encode_vertex_buffer
encode_vertex_buffer(vertices, vertex_count, vertex_size) ==
    LET width == vertex_size \div Float32ItemSize
        items == [k \in 1..vertex_count |->
                     PackRow(SubSeq(vertices.values, (k - 1) * width + 1, k * width))]
    IN Return(PyBytes(meshopt_encodeVertexBuffer(items, vertex_count, vertex_size)))

\* encode_index_buffer
encode_index_buffer(indices, index_count, index_size) ==
    LET written == meshopt_encodeIndexBuffer(indices.values, index_count)
    IN IF written = <<>>
       THEN Raise(Exc("RuntimeError", "Failed to encode index buffer", ""))
       ELSE Return(PyBytes(written))

\* encode_mesh: the streams packaged with the counts and sizes supplied
encode_mesh(vertices, indices, vertex_count, vertex_size, index_count) ==
    LET ev == encode_vertex_buffer(vertices, vertex_count, vertex_size)
        ei == IF indices # None THEN encode_index_buffer(indices, index_count, 4)
              ELSE Return(None)
    IN IF Raised(ev) THEN ev
       ELSE IF Raised(ei) THEN ei
       ELSE Return(EncodedMesh(ev.ret, ei.ret, PyInt(vertex_count), PyInt(vertex_size),
                               PyInt(index_count), PyInt(4)))

\* decode_vertex_buffer: an array of vertex_count rows
decode_vertex_buffer(vertex_count, vertex_size, data) ==
    LET width == vertex_size \div Float32ItemSize
        r == meshopt_decodeVertexBuffer(vertex_count, vertex_size, data.v)
    IN IF r.status # 0
       THEN Raise(Exc("RuntimeError", "Failed to decode vertex buffer", ""))
       ELSE Return(NdArray(Shape(<<vertex_count, width>>), PyDtype("float32"),
                           Concat([k \in 1..vertex_count |-> UnpackRow(r.items[k], width)])))

\* decode_index_buffer: an array of index_count indices
decode_index_buffer(index_count, index_size, data) ==
    LET r == meshopt_decodeIndexBuffer(index_count, index_size, data.v)
    IN IF r.status # 0
       THEN Raise(Exc("RuntimeError", "Failed to decode index buffer", ""))
       ELSE Return(UInt32Array(r.indices))

\* decode_mesh: the vertices and the indices, None without an index stream
decode_mesh(encoded_mesh) ==
    IF encoded_mesh.vertex_count = None \/ encoded_mesh.vertex_size = None
    THEN Raise(Exc("ValueError", "vertex_count and vertex_size are required", ""))
    ELSE LET vertices == decode_vertex_buffer(encoded_mesh.vertex_count.v,
                                              encoded_mesh.vertex_size.v,
                                              encoded_mesh.vertices)
         IN IF Raised(vertices) THEN vertices
            ELSE IF encoded_mesh.indices = None
            THEN Return([vertices |-> vertices.ret, indices |-> None])
            ELSE IF encoded_mesh.index_count = None
            THEN Raise(Exc("ValueError", "index_count is required", ""))
            ELSE LET indices == decode_index_buffer(encoded_mesh.index_count.v,
                                                    encoded_mesh.index_size.v,
                                                    encoded_mesh.indices)
                 IN IF Raised(indices) THEN indices
                    ELSE Return([vertices |-> vertices.ret, indices |-> indices.ret])

(***************************************************************************)
(* __init__.py: Mesh.encode, Mesh.decode                                   *)
(***************************************************************************)
\* faulty variant: the size of one coordinate is passed for the vertex size
Mesh_encode_ItemSize(self) ==
    encode_mesh(self.vertices, self.indices, self.vertex_count, Float32ItemSize,
                self.index_count)

\* Mesh.encode
Mesh_encode(self) ==
    encode_mesh(self.vertices, self.indices, self.vertex_count, VertexSizeOf(self),
                self.index_count)

\* faulty variant: the index stream is decoded whenever the dictionary has one
DecodesIndicesWhenStreamPresent(stream, index_count) == stream # None

\* encoded_data['indices'] is not None and index_count is not None
DecodesIndices(stream, index_count) == stream # None /\ index_count # None

\* the count handed to decode_index_buffer
CountOrZero(index_count) == IF index_count = None THEN 0 ELSE index_count.v

\* Mesh.decode of a dictionary: self is the Mesh made, None when it raised
Mesh_decode_dict(id, encoded_data, vertex_count, vertex_size, index_count, index_size) ==
    IF vertex_count = None \/ vertex_size = None
    THEN Outcome(None, Raise(Exc("ValueError", "vertex_count and vertex_size must be provided when using dictionary format", "")), <<>>)
    ELSE LET ev == Subscript(encoded_data, "vertices")
             vertices == IF Raised(ev) THEN ev
                         ELSE decode_vertex_buffer(vertex_count.v, vertex_size.v, ev.ret)
             ei == Subscript(encoded_data, "indices")
         IN IF Raised(ev) THEN Outcome(None, ev, <<>>)
            ELSE IF Raised(vertices) THEN Outcome(None, vertices, <<"decode_vertex_buffer">>)
            ELSE IF Raised(ei) THEN Outcome(None, ei, <<"decode_vertex_buffer">>)
            ELSE IF ~DecodesIndices(ei.ret, index_count)
            THEN Outcome(Mesh(vertices.ret, None), Return(Ref(id)),
                         <<"decode_vertex_buffer">>)
            ELSE LET indices == decode_index_buffer(CountOrZero(index_count), index_size.v,
                                                    ei.ret)
                 IN IF Raised(indices)
                    THEN Outcome(None, indices,
                                 <<"decode_vertex_buffer", "decode_index_buffer">>)
                    ELSE Outcome(Mesh(vertices.ret, indices.ret), Return(Ref(id)),
                                 <<"decode_vertex_buffer", "decode_index_buffer">>)

\* Mesh.decode of an EncodedMesh
Mesh_decode_encoded(id, encoded_data) ==
    LET r == decode_mesh(encoded_data)
    IN IF Raised(r) THEN Outcome(None, r, <<"decode_mesh">>)
       ELSE Outcome(Mesh(r.ret.vertices, r.ret.indices), Return(Ref(id)), <<"decode_mesh">>)

\* Mesh.decode
Mesh_decode(id, encoded_data, vertex_count, vertex_size, index_count, index_size) ==
    IF encoded_data.t = "EncodedMesh" THEN Mesh_decode_encoded(id, encoded_data)
    ELSE Mesh_decode_dict(id, encoded_data, vertex_count, vertex_size, index_count,
                          index_size)

(***************************************************************************)
(* The state machine: one action per call.                                 *)
(***************************************************************************)
Call(op, path, args, r) ==
    [op |-> op, path |-> path, args |-> args, exc |-> r.exc, ret |-> r.ret]

NoCall == Call("init", "", <<>>, Return(None))

\* a save call of a mesh; kept with it for the properties: the file that was
\* at the path when it was made
SaveCall(op, path, args, r) ==
    [op |-> op, path |-> path, args |-> args, exc |-> r.exc, ret |-> r.ret,
     replaced |-> fs[path]]

\* the two threads that make calls step by step
Threads == {1, 2}

\* a thread that has made no call
Idle ==
    [pc |-> "idle", call |-> [op |-> "none", path |-> ""], k |-> 0, handles |-> {},
     result |-> Return(None),
     \* whether another handle wrote to the file while this call wrote to it
     clobbered |-> FALSE,
     \* kept for the properties: the file at the path when the call began,
     \* and whether the other thread was in a call at some moment of this one
     before |-> Absent, concurrent |-> FALSE]

Init ==
    /\ fs = [p \in Paths \cup FilePaths |-> Absent]
    /\ origin = [p \in Paths \cup FilePaths |-> NoCall]
    /\ last = NoCall
    /\ threads = [t \in Threads |-> Idle]
    /\ heap = [id \in Objects |-> None]

\* faulty variant: the archive is opened for appending and keeps its entries
WrittenAppended(p, r) ==
    IF r.write = None THEN fs
    ELSE [fs EXCEPT ![p] = IF @.kind = "zip" THEN ZipOf(@.entries \o r.write.entries)
                           ELSE r.write]

\* the files after a save: the file it leaves, if it opened zip_path at all
Written(p, r) == IF r.write = None THEN fs ELSE [fs EXCEPT ![p] = r.write]

\* the call that left each file, after a save
Writer(p, r, call) == IF r.write = None THEN origin ELSE [origin EXCEPT ![p] = call]

\* The outcome of a save does not depend on the state: it is computed once
\* for each of the calls made.
SaveEncodedMeshOutcome ==
    [c \in EncodedMeshes \X Filenames |->
        save_encoded_mesh_to_zip(c[1], c[2][1], c[2][2], c[2][3])]

SaveEncodedMeshToZip(p, m, f) ==
    LET r == SaveEncodedMeshOutcome[<<m, f>>]
        args == [encoded_mesh |-> m, vertices_filename |-> f[1],
                 indices_filename |-> f[2], metadata_filename |-> f[3]]
    IN  /\ fs' = Written(p, r)
        /\ origin' = Writer(p, r, SaveCall("save_encoded_mesh_to_zip", p, args, r))
        /\ last' = SaveCall("save_encoded_mesh_to_zip", p, args, r)
        /\ UNCHANGED <<threads, heap>>

LoadEncodedMeshFromZip(p, f) ==
    LET r == load_encoded_mesh_from_zip(fs[p], f[1], f[2], f[3])
        args == [vertices_filename |-> f[1], indices_filename |-> f[2],
                 metadata_filename |-> f[3]]
    IN  /\ last' = Call("load_encoded_mesh_from_zip", p, args, r)
        /\ UNCHANGED <<fs, origin, threads, heap>>

SaveArraysOutcome ==
    [arrays \in NdArrayMaps \cup PartialMaps |-> save_arrays_to_zip(arrays)]

SaveArraysToZip(p, arrays) ==
    LET r == SaveArraysOutcome[arrays]
    IN  /\ fs' = Written(p, r)
        /\ origin' = Writer(p, r, Call("save_arrays_to_zip", p, [arrays |-> arrays], r))
        /\ last' = Call("save_arrays_to_zip", p, [arrays |-> arrays], r)
        /\ UNCHANGED <<threads, heap>>

LoadArraysFromZip(p) ==
    LET r == load_arrays_from_zip(fs[p])
    IN  /\ last' = Call("load_arrays_from_zip", p, <<>>, r)
        /\ UNCHANGED <<fs, origin, threads, heap>>

IndexedMesh == EncodedMesh(Vertices, PyBytes(<<1, 5>>), PyInt(2), PyInt(12), PyInt(3), PyInt(4))

OneArray == PyDict(<<Item("a", EncodedArrayOf("a"))>>)

TwoArrays == PyDict(<<Item("a", EncodedArrayOf("a")), Item("b", EncodedArrayOf("b"))>>)

DefaultDirs == <<"mesh", "arrays">>

\* The save_combined_data_to_zip calls made, as <<encoded_mesh, encoded_arrays,
\* metadata, dirs, can_open>>: the indexed mesh with every array map, every
\* mesh with one array, every general metadata with two arrays, and the calls
\* that write nothing (no mesh, no arrays, a path that cannot be opened).
SaveCombinedCalls ==
    {<<IndexedMesh, A, None, dirs, TRUE>> :
        A \in EncodedArrayMaps \ {PyDict(<<>>)}, dirs \in Dirs}
    \cup {<<m, OneArray, None, dirs, TRUE>> : m \in BundleMeshes, dirs \in Dirs}
    \cup {<<IndexedMesh, TwoArrays, md, dirs, TRUE>> : md \in Metadatas, dirs \in Dirs}
    \cup {<<None, A, None, DefaultDirs, can_open>> :
        A \in {PyDict(<<>>), OneArray}, can_open \in BOOLEAN}
    \cup {<<IndexedMesh, PyDict(<<>>), md, DefaultDirs, can_open>> :
        md \in {None, GoodMetadata}, can_open \in BOOLEAN}
    \cup {<<m, OneArray, None, DefaultDirs, FALSE>> : m \in BundleMeshes}

SaveCombinedOutcome ==
    [c \in SaveCombinedCalls |->
        save_combined_data_to_zip(c[1], c[2], c[3], c[4][1], c[4][2], c[5])]

SaveCombinedDataToZip(p, c) ==
    LET r == SaveCombinedOutcome[c]
        args == [encoded_mesh |-> c[1], encoded_arrays |-> c[2], metadata |-> c[3],
                 mesh_dir |-> c[4][1], arrays_dir |-> c[4][2], can_open |-> c[5]]
    IN  /\ fs' = Written(p, r)
        /\ origin' = Writer(p, r, Call("save_combined_data_to_zip", p, args, r))
        /\ last' = Call("save_combined_data_to_zip", p, args, r)
        /\ UNCHANGED <<threads, heap>>

LoadCombinedDataFromZip(p, dirs) ==
    LET r == load_combined_data_from_zip(fs[p], dirs[1], dirs[2])
        args == [mesh_dir |-> dirs[1], arrays_dir |-> dirs[2]]
    IN  /\ last' = Call("load_combined_data_from_zip", p, args, r)
        /\ UNCHANGED <<fs, origin, threads, heap>>

\* the file at p is a bundle as save_combined_data_to_zip left it
IsSavedBundle(p) ==
    origin[p].op = "save_combined_data_to_zip" /\ origin[p].exc = None

Env(p, file, what) ==
    /\ fs' = [fs EXCEPT ![p] = file]
    /\ origin' = [origin EXCEPT ![p] = Call(what, p, <<>>, Return(None))]
    /\ last' = Call(what, p, <<>>, Return(None))
    /\ UNCHANGED <<threads, heap>>

\* Another producer's archive: a saved bundle less one of its entries.
EnvDropEntry(p, i) ==
    /\ IsSavedBundle(p)
    /\ i \in 1..Len(fs[p].entries)
    /\ Env(p, ZipOf(SubSeq(fs[p].entries, 1, i - 1)
                     \o SubSeq(fs[p].entries, i + 1, Len(fs[p].entries))),
           "env_drop_entry")

\* Another producer's archive: a saved bundle with bytes that are no JSON
\* text in one of its JSON entries.
EnvCorruptEntry(p, i) ==
    /\ IsSavedBundle(p)
    /\ i \in 1..Len(fs[p].entries)
    /\ fs[p].entries[i].data.t = "utf8"
    /\ Env(p, ZipOf([fs[p].entries EXCEPT ![i].data = PyBytes(<<0>>)]), "env_corrupt_entry")

\* A file that is no zip container is put at the path.
EnvWriteRaw(p) ==
    /\ fs[p] # RawOf(<<0>>)
    /\ Env(p, RawOf(<<0>>), "env_write_raw")

\* metadata.json of the archive of arrays at p, as json.loads returns it
ArraysMetadataAt(p) == json_loads(ZipRead(fs[p].entries, "metadata.json").ret).ret

\* Another producer's archive of arrays: the archive save_arrays_to_zip left,
\* with the payload of its first array moved to the entry moved/<name>.bin,
\* the filename of its record changed to match, and other bytes of the same
\* length left under <name>.bin.
EnvRelistEntry(p) ==
    /\ origin[p].op = "save_arrays_to_zip"
    /\ origin[p].exc = None
    /\ origin[p].args.arrays.v # <<>>
    /\ LET entries == fs[p].entries
           name == origin[p].args.arrays.v[1].k
           moved == "moved/" \o name \o ".bin"
           record == DictSet(DictGet(ArraysMetadataAt(p), name), "filename", PyStr(moved))
           relisted == DictSet(ArraysMetadataAt(p), name, record)
           \* other bytes of the same length: the items zeroed
           other == PyBytes([i \in 1..Len(entries[1].data.v) |->
                                IF i = 1 THEN entries[1].data.v[1] ELSE 0])
       IN Env(p, ZipOf(<<Entry(name \o ".bin", other)>>
                       \o SubSeq(entries, 2, Len(entries) - 1)
                       \o <<Entry(moved, entries[1].data),
                            Entry("metadata.json", Utf8(JsonDoc(relisted)))>>),
              "env_relist_entry")

\* the record the last call returned, when it returned one
ReturnedRecords ==
    IF last.exc = None /\ last.ret.t = "EncodedArray" THEN {last.ret} ELSE {}

\* The array a record was encoded from, followed through the calls for the
\* properties: that of the record the last call returned, and None for a
\* record that did not come from encode_array.
SourceOfReturned ==
    CASE last.op = "encode_array" -> last.args.array
      [] last.op \in {"load_encoded_array_from_file", "load_encoded_array_from_zip"} ->
            last.args.source
      [] OTHER -> None

SourceOf(e) == IF e \in ReturnedRecords THEN SourceOfReturned ELSE None

\* the array the record saved at p was encoded from
SourceAt(p) ==
    IF /\ origin[p].op \in {"save_encoded_array_to_file", "save_encoded_array_to_zip"}
       /\ origin[p].exc = None
    THEN origin[p].args.source
    ELSE None

EncodeArray(array, fails) ==
    /\ last' = Call("encode_array", "", [array |-> array, fails |-> fails],
                    encode_array_with(array, fails))
    /\ UNCHANGED <<fs, origin, threads, heap>>

DecodeArray(e) ==
    /\ \E r \in decode_array_outcomes(e) :
           last' = Call("decode_array", "", [encoded_array |-> e, source |-> SourceOf(e)], r)
    /\ UNCHANGED <<fs, origin, threads, heap>>

\* Another producer's file: a record in the layout of
\* save_encoded_array_to_file whose itemsize encode_array never gives.
EnvForeignRecord(p, e) ==
    /\ fs[p] # save_encoded_array_to_file(e).write
    /\ Env(p, save_encoded_array_to_file(e).write, "env_foreign_record")

SaveEncodedArrayToFileOutcome ==
    [e \in EncodedArrays \cup CodecRecords \cup ForeignRecords |-> save_encoded_array_to_file(e)]

SaveEncodedArrayToFile(p, e) ==
    LET r == SaveEncodedArrayToFileOutcome[e]
        args == [encoded_array |-> e, source |-> SourceOf(e)]
    IN  /\ fs' = Written(p, r)
        /\ origin' = Writer(p, r, Call("save_encoded_array_to_file", p, args, r))
        /\ last' = Call("save_encoded_array_to_file", p, args, r)
        /\ UNCHANGED <<threads, heap>>

LoadEncodedArrayFromFile(p) ==
    LET r == load_encoded_array_from_file(fs[p])
    IN  /\ last' = Call("load_encoded_array_from_file", p, [source |-> SourceAt(p)], r)
        /\ UNCHANGED <<fs, origin, threads, heap>>

SaveEncodedArrayToZip(p, e, f) ==
    LET r == save_encoded_array_to_zip(e, f[1], f[2])
        args == [encoded_array |-> e, data_filename |-> f[1], metadata_filename |-> f[2],
                 source |-> SourceOf(e)]
    IN  /\ fs' = Written(p, r)
        /\ origin' = Writer(p, r, Call("save_encoded_array_to_zip", p, args, r))
        /\ last' = Call("save_encoded_array_to_zip", p, args, r)
        /\ UNCHANGED <<threads, heap>>

LoadEncodedArrayFromZip(p, f) ==
    LET r == load_encoded_array_from_zip(fs[p], f[1], f[2])
        args == [data_filename |-> f[1], metadata_filename |-> f[2], source |-> SourceAt(p)]
    IN  /\ last' = Call("load_encoded_array_from_zip", p, args, r)
        /\ UNCHANGED <<fs, origin, threads, heap>>

\* the file as save_encoded_array_to_file left it
IsSavedArrayFile(p) ==
    /\ origin[p].op = "save_encoded_array_to_file"
    /\ origin[p].exc = None

\* where a saved file is cut: inside the length prefix, right after it,
\* inside the metadata, one byte before its end, at its end, inside the data
CutPoints(bytes) ==
    LET declared == StructUnpack(SubSeq(bytes, 1, 4)).ret
    IN {n \in {0, 3, 4, 4 + (declared \div 2), 3 + declared, 4 + declared, Len(bytes) - 1} :
           n < Len(bytes)}

\* the environment cuts a saved file down to some of its first bytes
EnvTruncate(p) ==
    /\ IsSavedArrayFile(p)
    /\ \E n \in CutPoints(fs[p].bytes) :
          Env(p, RawOf(SubSeq(fs[p].bytes, 1, n)), "env_truncate")

\* the environment makes the length prefix of a saved file declare k more
\* bytes of metadata than were written
EnvDeclareMore(p, k) ==
    /\ IsSavedArrayFile(p)
    /\ LET bytes == fs[p].bytes
           declared == StructUnpack(SubSeq(bytes, 1, 4)).ret + k
       IN Env(p, RawOf(StructPack(declared).ret \o SubSeq(bytes, 5, Len(bytes))),
              "env_declare_more")

(***************************************************************************)
(* Calls made step by step by two threads: a call opens its file or        *)
(* archive, writes or reads entry by entry inside the with block, and      *)
(* leaves the block, by its end or by an exception.  The threads share     *)
(* the file system and nothing else.                                       *)
(***************************************************************************)
SaveOps ==
    {"save_encoded_mesh_to_zip", "save_arrays_to_zip", "save_combined_data_to_zip"}

LoadOps ==
    {"load_encoded_mesh_from_zip", "load_arrays_from_zip", "load_combined_data_from_zip"}

NonIndexedMesh == EncodedMesh(Vertices, None, PyInt(2), PyInt(12), None, PyInt(4))

\* what each save writes and how it ends: an indexed mesh, two arrays, a
\* bundle of a non-indexed mesh (which fails after its first entry)
SavePlanOf ==
    [op \in SaveOps |->
        CASE op = "save_encoded_mesh_to_zip" ->
                save_encoded_mesh_to_zip(IndexedMesh, "vertices.bin", "indices.bin",
                                         "metadata.json")
          [] op = "save_arrays_to_zip" ->
                save_arrays_to_zip(PyDict(<<Item("a", NdArrayOf("a")),
                                            Item("b", NdArrayOf("b"))>>))
          [] op = "save_combined_data_to_zip" ->
                save_combined_data_to_zip(NonIndexedMesh, OneArray, None,
                                          "mesh", "arrays", TRUE)]

\* what a load returns or raises on a file, with the default names
LoadResult(op, file) ==
    CASE op = "load_encoded_mesh_from_zip" ->
            load_encoded_mesh_from_zip(file, "vertices.bin", "indices.bin", "metadata.json")
      [] op = "load_arrays_from_zip" -> load_arrays_from_zip(file)
      [] op = "load_combined_data_from_zip" ->
            load_combined_data_from_zip(file, "mesh", "arrays")

\* the path each thread gives to its calls: the two are distinct
PathOf(t) == IF t = 1 THEN "p.zip" ELSE "q.zip"

InCall(t) == threads[t].pc \notin {"idle", "done"}

Other(t) == CHOOSE u \in Threads : u # t

\* faulty variant: every archive is written and read through one shared path
HandleTargetShared(path) == IF path \in Paths THEN "p.zip" ELSE path

\* the file a handle opened with a path refers to
HandleTarget(path) == path

\* faulty variant: leaving by an exception keeps the handles
CloseOnExitUnlessRaised(exc, handles) == IF exc # None THEN handles ELSE {}

\* __exit__ of the with block: the handles are closed, whatever the exit
CloseOnExit(exc, handles) == {}

\* the thread holds a handle that writes to the file
WritesTo(t, target) == threads[t].call.op \in SaveOps /\ target \in threads[t].handles

\* faulty variant: a file that another thread holds open cannot be opened
MayOpenIfNotHeld(t, target) == target \notin threads[Other(t)].handles

\* ZipFile(zip_path, mode) takes no lock: a file is opened whoever holds it
MayOpen(t, target) == TRUE

\* the file a save leaves when it closes its archive: the entries it wrote
\* with their directory, or, when another handle wrote to the same file
\* meanwhile, possibly bytes that are no archive
ClosedArchives(th) ==
    {SavePlanOf[th.call.op].write} \cup (IF th.clobbered THEN {RawOf(<<0>>)} ELSE {})

BeginCall(t, op, p) ==
    /\ ~InCall(t)
    /\ threads' =
          [threads EXCEPT
              ![t] = [Idle EXCEPT !.pc = "open",
                                  !.call = [op |-> op, path |-> p],
                                  !.before = fs[p],
                                  !.concurrent = InCall(Other(t))],
              ![Other(t)].concurrent = @ \/ InCall(Other(t))]
    /\ UNCHANGED <<fs, origin, last, heap>>

\* ZipFile(zip_path, 'w') truncates the file (every save of SavePlanOf
\* passes its checks and opens its archive)
OpenForWrite(t) ==
    LET th == threads[t]
        plan == SavePlanOf[th.call.op]
        target == HandleTarget(th.call.path)
    IN  /\ th.pc = "open"
        /\ th.call.op \in SaveOps
        /\ plan.write # None
        /\ MayOpen(t, target)
        /\ fs' = [fs EXCEPT ![target] = Unfinished]
        /\ threads' = [threads EXCEPT
                          ![t].pc = "body",
                          ![t].handles = {target},
                          ![t].clobbered = WritesTo(Other(t), target),
                          ![Other(t)].clobbered = @ \/ WritesTo(Other(t), target)]
        /\ UNCHANGED <<origin, last, heap>>

\* the next writestr of the with block: the entry goes to the file, its
\* directory record stays with the handle until the archive is closed
WriteNext(t) ==
    LET th == threads[t]
        plan == SavePlanOf[th.call.op]
    IN  /\ th.pc = "body"
        /\ th.call.op \in SaveOps
        /\ th.k < Len(plan.write.entries)
        /\ threads' = [threads EXCEPT ![t].k = th.k + 1]
        /\ UNCHANGED <<fs, origin, last, heap>>

\* after the last write: the end of the with block, or the exception that
\* the statement after the last write raised
EndWrites(t) ==
    LET th == threads[t]
        plan == SavePlanOf[th.call.op]
    IN  /\ th.pc = "body"
        /\ th.call.op \in SaveOps
        /\ th.k = Len(plan.write.entries)
        /\ threads' = [threads EXCEPT ![t].pc = "leaving",
                                      ![t].result = [exc |-> plan.exc, ret |-> plan.ret]]
        /\ UNCHANGED <<fs, origin, last, heap>>

\* ZipFile(zip_path, 'r'): a load that cannot open
\* its file ends here with what it raises
OpenForRead(t) ==
    LET th == threads[t]
        target == HandleTarget(th.call.path)
        opens == fs[target].kind = "zip"
    IN  /\ th.pc = "open"
        /\ th.call.op \in LoadOps
        /\ MayOpen(t, target)
        /\ IF opens
           THEN threads' = [threads EXCEPT ![t].pc = "body", ![t].handles = {target}]
           ELSE threads' = [threads EXCEPT ![t].pc = "done",
                                           ![t].result = LoadResult(th.call.op, fs[target])]
        /\ UNCHANGED <<fs, origin, last, heap>>

\* the reads of the with block, up to its end or to the exception one raises
ReadEntries(t) ==
    LET th == threads[t]
        target == HandleTarget(th.call.path)
    IN  /\ th.pc = "body"
        /\ th.call.op \in LoadOps
        /\ threads' = [threads EXCEPT ![t].pc = "leaving",
                                      ![t].result = LoadResult(th.call.op, fs[target])]
        /\ UNCHANGED <<fs, origin, last, heap>>

\* the with block is left, which closes the archive, and the call returns
\* or raises
LeaveWith(t) ==
    LET th == threads[t]
        target == HandleTarget(th.call.path)
    IN  /\ th.pc = "leaving"
        /\ threads' = [threads EXCEPT ![t].pc = "done",
                                      ![t].handles = CloseOnExit(th.result.exc, th.handles)]
        /\ IF th.call.op \in SaveOps
           THEN \E file \in ClosedArchives(th) : fs' = [fs EXCEPT ![target] = file]
           ELSE UNCHANGED fs
        /\ UNCHANGED <<origin, last, heap>>

(***************************************************************************)
(* Calls on Mesh objects.                                                  *)
(***************************************************************************)
\* a float32 array of rows of two coordinates
VertexArray(rows) ==
    NdArray(Shape(<<Len(rows), 2>>), PyDtype("float32"), Concat(rows))

\* the vertex arrays meshes are made of: a quad, and a triangle with a
\* vertex inside it
MeshVertices ==
    {VertexArray(<<<<0, 0>>, <<1, 0>>, <<0, 1>>, <<1, 1>>>>),
     VertexArray(<<<<0, 0>>, <<5, 5>>, <<1, 0>>, <<0, 1>>>>)}

\* the index arrays: none, one triangle, two triangles
MeshIndices == {None, UInt32Array(<<1, 2, 3>>), UInt32Array(<<0, 1, 2, 2, 1, 3>>)}

\* the target ratios of simplify, in hundredths
TargetRatios == {25, 100}

\* the methods of Mesh that optimize or simplify it
MeshMethods == {"optimize_vertex_cache", "optimize_overdraw", "optimize_vertex_fetch",
                "simplify"}

\* Mesh(vertices, indices), the new object taking the identity id
NewMesh(id, vertices, indices) ==
    /\ heap[id] = None
    /\ heap' = [heap EXCEPT ![id] = Mesh(vertices, indices)]
    /\ last' = Call("Mesh", "", [vertices |-> vertices, indices |-> indices],
                    Return(Ref(id)))
    /\ UNCHANGED <<fs, origin, threads>>

\* a method call on the object id with one of its outcomes; kept with it for
\* the properties: the object before the call and the primitives invoked
MethodCall(id, op, o) ==
    /\ heap' = [heap EXCEPT ![id] = o.self]
    /\ last' = Call(op, "", [self |-> id, before |-> heap[id], invoked |-> o.invoked],
                    [exc |-> o.exc, ret |-> o.ret])
    /\ UNCHANGED <<fs, origin, threads>>

OptimizeVertexCache(id) ==
    /\ heap[id] # None
    /\ \E o \in Mesh_optimize_vertex_cache(id, heap[id]) :
          MethodCall(id, "optimize_vertex_cache", o)

OptimizeOverdraw(id) ==
    /\ heap[id] # None
    /\ \E o \in Mesh_optimize_overdraw(id, heap[id], 105) :
          MethodCall(id, "optimize_overdraw", o)

OptimizeVertexFetch(id) ==
    /\ heap[id] # None
    /\ \E o \in Mesh_optimize_vertex_fetch(id, heap[id]) :
          MethodCall(id, "optimize_vertex_fetch", o)

Simplify(id, target_ratio) ==
    /\ heap[id] # None
    /\ \E o \in Mesh_simplify(id, heap[id], target_ratio, 1) :
          MethodCall(id, "simplify", o)

\* the streams of the quad with its two triangles
QuadVertexStream == PyBytes(<<FormatVersion, 0, 10, 1, 11>>)

QuadIndexStream == PyBytes(<<FormatVersion, 0, 1, 2, 1, 3, 2>>)

\* the dictionaries of the older interface: with an index stream, with
\* indices None, with a vertex stream of another format version
LegacyDicts ==
    {PyDict(<<Item("vertices", QuadVertexStream), Item("indices", QuadIndexStream)>>),
     PyDict(<<Item("vertices", QuadVertexStream), Item("indices", None)>>),
     PyDict(<<Item("vertices", PyBytes(<<FormatVersion + 1, 0, 10, 1, 11>>)),
              Item("indices", QuadIndexStream)>>)}

\* the counts and sizes a caller may supply with a dictionary
VertexCounts == {None, PyInt(4)}

VertexSizes == {None, PyInt(8)}

IndexCounts == {None, PyInt(6), PyInt(3)}

\* Mesh.decode(encoded_data, vertex_count, vertex_size, index_count), the
\* Mesh it makes taking the identity id; kept with the call for the
\* properties: the primitives invoked
MeshDecode(id, encoded_data, vertex_count, vertex_size, index_count) ==
    LET o == Mesh_decode(id, encoded_data, vertex_count, vertex_size, index_count, PyInt(4))
    IN  /\ heap[id] = None
        /\ heap' = IF o.exc = None THEN [heap EXCEPT ![id] = o.self] ELSE heap
        /\ last' = Call("Mesh.decode", "",
                        [encoded_data |-> encoded_data, vertex_count |-> vertex_count,
                         vertex_size |-> vertex_size, index_count |-> index_count,
                         invoked |-> o.invoked],
                        [exc |-> o.exc, ret |-> o.ret])
        /\ UNCHANGED <<fs, origin, threads>>

\* del mesh: the object id is dropped
DropMesh(id) ==
    /\ heap[id] # None
    /\ heap' = [heap EXCEPT ![id] = None]
    /\ last' = Call("del", "", [self |-> id], Return(None))
    /\ UNCHANGED <<fs, origin, threads>>

NextThreads ==
    \E t \in Threads :
        \/ \E op \in SaveOps \cup LoadOps : BeginCall(t, op, PathOf(t))
        \/ OpenForWrite(t)
        \/ WriteNext(t)
        \/ EndWrites(t)
        \/ OpenForRead(t)
        \/ ReadEntries(t)
        \/ LeaveWith(t)

\* the calls two threads make on one path: saves and loads of a mesh archive
\* and saves of an archive of arrays
SamePathOps == {"save_encoded_mesh_to_zip", "load_encoded_mesh_from_zip", "save_arrays_to_zip"}

NextSamePath ==
    \E t \in Threads :
        \/ \E op \in SamePathOps : BeginCall(t, op, "p.zip")
        \/ OpenForWrite(t)
        \/ WriteNext(t)
        \/ EndWrites(t)
        \/ OpenForRead(t)
        \/ ReadEntries(t)
        \/ LeaveWith(t)

\* saves of meshes and of arrays, and their loads, on one path with the
\* default entry names
DefaultFilenames == <<"vertices.bin", "indices.bin", "metadata.json">>

NextReplace ==
    \E p \in OnePath :
        \/ \E m \in EncodedMeshes : SaveEncodedMeshToZip(p, m, DefaultFilenames)
        \/ \E arrays \in NdArrayMaps : SaveArraysToZip(p, arrays)
        \/ LoadEncodedMeshFromZip(p, DefaultFilenames)
        \/ LoadArraysFromZip(p)

\* saves of maps of arrays, with and without a value that cannot be encoded,
\* and loads
NextPartial ==
    \E p \in Paths :
        \/ \E arrays \in NdArrayMaps \cup PartialMaps : SaveArraysToZip(p, arrays)
        \/ LoadArraysFromZip(p)

NextMesh ==
    \E p \in OnePath, f \in Filenames :
        \/ \E m \in EncodedMeshes : SaveEncodedMeshToZip(p, m, f)
        \/ LoadEncodedMeshFromZip(p, f)

NextArrays ==
    \E p \in Paths :
        \/ \E arrays \in NdArrayMaps : SaveArraysToZip(p, arrays)
        \/ LoadArraysFromZip(p)
        \/ EnvRelistEntry(p)

NextCombined ==
    \E p \in OnePath :
        \/ \E c \in SaveCombinedCalls : SaveCombinedDataToZip(p, c)
        \/ \E dirs \in Dirs : LoadCombinedDataFromZip(p, dirs)
        \/ \E i \in 1..(MaxArrays + 5) : EnvDropEntry(p, i)
        \/ \E i \in 1..(MaxArrays + 5) : EnvCorruptEntry(p, i)
        \/ EnvWriteRaw(p)

NextArrayFile ==
    \/ \E p \in FilePaths :
        \/ \E e \in EncodedArrays : SaveEncodedArrayToFile(p, e)
        \/ LoadEncodedArrayFromFile(p)
        \/ EnvTruncate(p)
        \/ \E k \in 1..2 : EnvDeclareMore(p, k)
    \/ \E p \in OnePath, f \in ArrayFilenames :
        \/ \E e \in EncodedArrays : SaveEncodedArrayToZip(p, e, f)
        \/ LoadEncodedArrayFromZip(p, f)

\* the codec, and the records it returns carried through the single-array
\* file and archive under the default entry names
NextCodec ==
    \/ \E array \in CodecArrays \cup {None}, fails \in BOOLEAN : EncodeArray(array, fails)
    \/ \E e \in ReturnedRecords \cup DecodedRecords : DecodeArray(e)
    \/ \E p \in FilePaths :
        \/ \E e \in ReturnedRecords : SaveEncodedArrayToFile(p, e)
        \/ LoadEncodedArrayFromFile(p)
    \/ \E p \in OnePath :
        \/ \E e \in ReturnedRecords :
              SaveEncodedArrayToZip(p, e, <<"data.bin", "metadata.json">>)
        \/ LoadEncodedArrayFromZip(p, <<"data.bin", "metadata.json">>)

\* the calls of NextCodec, and files of records that another producer wrote
(***************************************************************************)
(* ziputils.py: save_mesh_to_zip, load_mesh_from_zip                       *)
(***************************************************************************)
\* save_mesh_to_zip: nothing is opened when mesh.encode() raises
save_mesh_to_zip(mesh, vfn, ifn, mfn) ==
    LET encoded_mesh == Mesh_encode(mesh)
    IN IF Raised(encoded_mesh)
       THEN [write |-> None, exc |-> encoded_mesh.exc, ret |-> None]
       ELSE save_encoded_mesh_to_zip(encoded_mesh.ret, vfn, ifn, mfn)

\* load_mesh_from_zip(Mesh, zip_path), the Mesh it makes taking the identity id
load_mesh_from_zip(id, file, vfn, ifn, mfn) ==
    LET encoded_mesh == load_encoded_mesh_from_zip(file, vfn, ifn, mfn)
    IN IF Raised(encoded_mesh) THEN Outcome(None, encoded_mesh, <<>>)
       ELSE Mesh_decode(id, encoded_mesh.ret, None, None, None, PyInt(4))

\* the index arrays of the meshes saved: also an empty one and one that is
\* not a list of triangles
SavedIndices == MeshIndices \cup {UInt32Array(<<>>), UInt32Array(<<0, 1, 2, 3>>)}

\* save_mesh_to_zip(mesh, zip_path) with the default names; kept with the
\* call for the properties: the mesh as it was when saved
SaveMeshToZip(id, p) ==
    LET r == save_mesh_to_zip(heap[id], DefaultFilenames[1], DefaultFilenames[2],
                              DefaultFilenames[3])
        call == Call("save_mesh_to_zip", p, [self |-> id, mesh |-> heap[id]], r)
    IN  /\ heap[id] # None
        /\ fs' = Written(p, r)
        /\ origin' = Writer(p, r, call)
        /\ last' = call
        /\ UNCHANGED <<threads, heap>>

\* load_mesh_from_zip(Mesh, zip_path) with the default names
LoadMeshFromZip(id, p) ==
    LET o == load_mesh_from_zip(id, fs[p], DefaultFilenames[1], DefaultFilenames[2],
                                DefaultFilenames[3])
    IN  /\ heap[id] = None
        /\ heap' = IF o.exc = None THEN [heap EXCEPT ![id] = o.self] ELSE heap
        /\ last' = Call("load_mesh_from_zip", p, [invoked |-> o.invoked],
                        [exc |-> o.exc, ret |-> o.ret])
        /\ UNCHANGED <<fs, origin, threads>>

NextMeshZip ==
    \/ \E id \in Objects, vertices \in MeshVertices, indices \in SavedIndices :
          NewMesh(id, vertices, indices)
    \/ \E id \in Objects : OptimizeVertexFetch(id)
    \/ \E id \in Objects, p \in OnePath : SaveMeshToZip(id, p)
    \/ \E id \in Objects, p \in OnePath : LoadMeshFromZip(id, p)
    \/ \E id \in Objects : DropMesh(id)

NextMeshObject ==
    \/ \E id \in Objects, vertices \in MeshVertices, indices \in MeshIndices :
          NewMesh(id, vertices, indices)
    \/ \E id \in Objects : OptimizeVertexCache(id)
    \/ \E id \in Objects : OptimizeOverdraw(id)
    \/ \E id \in Objects : OptimizeVertexFetch(id)
    \/ \E id \in Objects, target_ratio \in TargetRatios : Simplify(id, target_ratio)

NextMeshDecode ==
    \/ \E id \in Objects, encoded_data \in LegacyDicts, vertex_count \in VertexCounts,
          vertex_size \in VertexSizes, index_count \in IndexCounts :
          MeshDecode(id, encoded_data, vertex_count, vertex_size, index_count)
    \/ \E id \in Objects : DropMesh(id)

NextForeign ==
    \/ NextCodec
    \/ \E p \in FilePaths, e \in ForeignRecords : EnvForeignRecord(p, e)

Next == NextMesh \/ NextArrays \/ NextCombined \/ NextArrayFile \/ NextCodec \/ NextThreads \/ NextSamePath \/ NextReplace \/ NextPartial \/ NextForeign
          \/ NextMeshObject \/ NextMeshDecode \/ NextMeshZip

Spec == Init /\ [][Next]_vars

SpecMesh == Init /\ [][NextMesh]_vars

SpecArrays == Init /\ [][NextArrays]_vars

SpecCombined == Init /\ [][NextCombined]_vars

SpecArrayFile == Init /\ [][NextArrayFile]_vars

SpecCodec == Init /\ [][NextCodec]_vars

SpecThreads == Init /\ [][NextThreads]_vars

SpecSamePath == Init /\ [][NextSamePath]_vars

SpecReplace == Init /\ [][NextReplace]_vars

SpecPartial == Init /\ [][NextPartial]_vars

SpecForeign == Init /\ [][NextForeign]_vars

SpecMeshObject == Init /\ [][NextMeshObject]_vars

SpecMeshDecode == Init /\ [][NextMeshDecode]_vars

SpecMeshZip == Init /\ [][NextMeshZip]_vars

(***************************************************************************)
(* Properties of the combined bundle (SpecCombined).                       *)
(***************************************************************************)
\* the call raised an exception of the kind
RaisedKind(call, kind) == call.exc # None /\ call.exc.kind = kind

\* the error kinds of the specification, as the exception classes of the code
ValidationError == "ValueError"
NotFoundError == "FileNotFoundError"
AggregateError == "IOError"

SaveCombined == "save_combined_data_to_zip"
LoadCombined == "load_combined_data_from_zip"

\* the file at the path of the last call came from save_combined_data_to_zip
\* given an indexed mesh, a non-empty array map and metadata JSON can hold, and
\* the last call loaded it with the directories it was saved with
LoadedWhatWasSaved ==
    /\ last.op = LoadCombined
    /\ origin[last.path].op = SaveCombined
    /\ origin[last.path].args.encoded_mesh.indices # None
    /\ origin[last.path].args.encoded_arrays.v # <<>>
    /\ JsonSerializable(origin[last.path].args.metadata)
    /\ origin[last.path].args.mesh_dir = last.args.mesh_dir
    /\ origin[last.path].args.arrays_dir = last.args.arrays_dir

C2_ValidationBeforeWrite ==
    [][(/\ last'.op = SaveCombined
        /\ \/ last'.args.encoded_mesh = None
           \/ last'.args.encoded_arrays.v = <<>>)
       => /\ RaisedKind(last', ValidationError)
          /\ last'.exc.context = ""
          /\ fs' = fs]_vars

C2_Witness ==
    /\ last.op = SaveCombined
    /\ last.args.encoded_mesh # None
    /\ last.args.encoded_arrays.v = <<>>
    /\ last.args.can_open
    /\ RaisedKind(last, ValidationError)
    /\ fs[last.path].kind = "zip"

\* the names under which arrays_dir/metadata.json lists arrays
ListedArrays(entries, arrays_dir) ==
    LET data == ZipRead(entries, arrays_dir \o "/metadata.json")
        doc == json_loads(data.ret)
    IN IF Raised(data) THEN {}
       ELSE IF Raised(doc) THEN {}
       ELSE IF doc.ret.t # "dict" THEN {}
       ELSE Keys(doc.ret)

RequiredEntries(entries, mesh_dir, arrays_dir) ==
    {mesh_dir \o "/vertices.bin", mesh_dir \o "/indices.bin", mesh_dir \o "/metadata.json",
     arrays_dir \o "/metadata.json"}
    \cup {ArrayEntryName(arrays_dir, name) : name \in ListedArrays(entries, arrays_dir)}

\* the last call loaded an archive that lacks an entry the load requires
LoadedWithEntryMissing ==
    /\ last.op = LoadCombined
    /\ fs[last.path].kind = "zip"
    /\ \E name \in RequiredEntries(fs[last.path].entries, last.args.mesh_dir,
                                   last.args.arrays_dir) :
           name \notin namelist(fs[last.path].entries)

\* the last call loaded an archive that lacks the top-level metadata.json and
\* nothing else: with that entry added, the archive loads
LoadedWithOnlyGeneralMetadataMissing ==
    /\ last.op = LoadCombined
    /\ fs[last.path].kind = "zip"
    /\ "metadata.json" \notin namelist(fs[last.path].entries)
    /\ Returned(load_combined_data_from_zip(
           ZipOf(Append(fs[last.path].entries,
                        Entry("metadata.json", Utf8(JsonDoc(PyDict(<<>>)))))),
           last.args.mesh_dir, last.args.arrays_dir))

LoadedNoZip == last.op = LoadCombined /\ fs[last.path].kind = "raw"

\* C3 as stated: load_combined_data_from_zip raises the validation error on a
\* file that is no zip, the not-found error when a required entry is missing,
\* and returns general metadata None when only the top-level metadata.json is
\* missing.
C3_MissingEntryIsNotFoundError ==
    /\ LoadedNoZip => RaisedKind(last, ValidationError)
    /\ LoadedWithEntryMissing => RaisedKind(last, NotFoundError)
    /\ LoadedWithOnlyGeneralMetadataMissing => (Returned(last) /\ last.ret.v[3] = None)

\* C3 as the code has it: a file that is no zip and a missing required entry
\* both raise ValueError, the first "Invalid zip file" while handling
\* BadZipFile, the second "Missing expected file in zip" while handling
\* KeyError; when only the top-level metadata.json is missing the load
\* returns, with general metadata None.
C3_MissingEntryIsValueError ==
    /\ LoadedNoZip => last.exc = Exc("ValueError", "Invalid zip file", "BadZipFile")
    /\ LoadedWithEntryMissing =>
           last.exc = Exc("ValueError", "Missing expected file in zip", "KeyError")
    /\ LoadedWithOnlyGeneralMetadataMissing => (Returned(last) /\ last.ret.v[3] = None)

C3_Witness ==
    /\ LoadedWithEntryMissing
    /\ origin[last.path].op = "env_drop_entry"
    /\ "metadata.json" \in namelist(fs[last.path].entries)
    /\ <<last.args.mesh_dir, last.args.arrays_dir>> = DefaultDirs
    /\ RaisedKind(last, "ValueError")

\* the last call of save_combined_data_to_zip passed validation
SavedPastValidation ==
    /\ last.op = SaveCombined
    /\ last.args.encoded_mesh # None
    /\ last.args.encoded_arrays.v # <<>>

\* C4: once validation has passed, a failure to open the archive, to write an
\* entry or to serialize metadata makes save_combined_data_to_zip raise, and
\* whatever it raises is an IOError raised while handling the original
\* exception.
C4_WriteFailureIsIOError ==
    SavedPastValidation =>
        /\ (\/ ~last.args.can_open
            \/ last.args.encoded_mesh.indices = None
            \/ ~JsonSerializable(last.args.metadata)) => Raised(last)
        /\ Raised(last) =>
               /\ last.exc.kind = AggregateError
               /\ last.exc.context =
                      IF last.args.can_open THEN "TypeError" ELSE "PermissionError"

C4_Witness ==
    /\ SavedPastValidation
    /\ last.args.metadata = BadMetadata
    /\ RaisedKind(last, AggregateError)
    /\ last.exc.context = "TypeError"
    /\ fs[last.path].kind = "zip"

\* C5 as stated: every failure of load_combined_data_from_zip is the aggregate
\* error raised while handling the original exception.
C5_LoadFailureIsAggregate ==
    (last.op = LoadCombined /\ Raised(last)) =>
        (last.exc.kind = AggregateError /\ last.exc.context # "")

\* C5 as the code has it: a missing path raises FileNotFoundError outside any
\* handler; a failure of the read phase raises ValueError when the original
\* exception is BadZipFile or KeyError and IOError otherwise, each while
\* handling the original exception.
C5_LoadFailureKinds ==
    (last.op = LoadCombined /\ Raised(last)) =>
        IF fs[last.path] = Absent
        THEN last.exc = Exc("FileNotFoundError", "Zip file not found", "")
        ELSE /\ last.exc.context # ""
             /\ last.exc.kind =
                    IF last.exc.context \in {"BadZipFile", "KeyError"}
                    THEN "ValueError" ELSE "IOError"

C5_Witness ==
    /\ last.op = LoadCombined
    /\ origin[last.path].op = "env_corrupt_entry"
    /\ RaisedKind(last, "IOError")
    /\ last.exc.context = "JSONDecodeError"

\* C6: save_combined_data_to_zip, given arguments that pass validation, a path
\* it can open and metadata JSON can hold, succeeds, writes mesh_dir/indices.bin
\* exactly when the mesh has indices, and puts index_count into
\* mesh_dir/metadata.json exactly when the mesh has one.
C6_MeshSubtreeAsSingleMesh ==
    (/\ SavedPastValidation
     /\ last.args.can_open
     /\ JsonSerializable(last.args.metadata)
     /\ <<last.args.mesh_dir, last.args.arrays_dir>> = DefaultDirs) =>
        /\ Returned(last)
        /\ ("mesh/indices.bin" \in namelist(fs[last.path].entries))
               <=> (last.args.encoded_mesh.indices # None)
        /\ DictHas(json_loads(ZipRead(fs[last.path].entries, "mesh/metadata.json").ret).ret,
                   "index_count")
               <=> (last.args.encoded_mesh.index_count # None)

\* the save of a non-indexed mesh with one array: an IOError, and an archive
\* that holds mesh/vertices.bin alone
C6_Witness ==
    /\ SavedPastValidation
    /\ last.args.can_open
    /\ last.args.encoded_mesh.indices = None
    /\ last.args.metadata = None
    /\ RaisedKind(last, "IOError")
    /\ fs[last.path] = ZipOf(<<Entry("mesh/vertices.bin", Vertices)>>)

\* arrays_dir/metadata.json of the archive at the path of the last call
ArraysMetadataWritten ==
    json_loads(ZipRead(fs[last.path].entries, last.args.arrays_dir \o "/metadata.json").ret).ret

SavedBundle == last.op = SaveCombined /\ Returned(last)

\* C7 as stated: arrays_dir/metadata.json of a saved bundle maps every array
\* name to a record with shape, dtype, itemsize and filename.
C7_ArrayRecordsHaveFilename ==
    SavedBundle =>
        /\ Keys(ArraysMetadataWritten) = Keys(last.args.encoded_arrays)
        /\ \A name \in Keys(last.args.encoded_arrays) :
               Keys(DictGet(ArraysMetadataWritten, name))
                   = {"shape", "dtype", "itemsize", "filename"}

\* C7 as the code has it: arrays_dir/metadata.json of a saved bundle maps every
\* array name to a record with shape, dtype and itemsize and nothing else, and
\* a load that returns has read the data of every array from the entry
\* arrays_dir/<name>.bin.
C7_ArrayRecordsWithoutFilename ==
    /\ SavedBundle =>
           /\ Keys(ArraysMetadataWritten) = Keys(last.args.encoded_arrays)
           /\ \A name \in Keys(last.args.encoded_arrays) :
                  /\ Keys(DictGet(ArraysMetadataWritten, name)) = {"shape", "dtype", "itemsize"}
                  /\ ArrayEntryName(last.args.arrays_dir, name)
                         \in namelist(fs[last.path].entries)
    /\ (last.op = LoadCombined /\ Returned(last)) =>
           \A name \in Keys(last.ret.v[2]) :
               DictGet(last.ret.v[2], name).data
                   = ZipRead(fs[last.path].entries,
                             ArrayEntryName(last.args.arrays_dir, name)).ret

C7_Witness ==
    /\ SavedBundle
    /\ last.args.encoded_arrays = TwoArrays
    /\ last.args.metadata = None
    /\ Keys(DictGet(ArraysMetadataWritten, "b")) = {"shape", "dtype", "itemsize"}

(***************************************************************************)
(* Properties of the single-mesh archive (SpecMesh).                       *)
(***************************************************************************)
SaveEncodedMesh == "save_encoded_mesh_to_zip"
LoadEncodedMesh == "load_encoded_mesh_from_zip"

\* the names a call gives the three entries
EntryNames(call) ==
    <<call.args.vertices_filename, call.args.indices_filename, call.args.metadata_filename>>

\* the last call loaded, under the names it was saved with, the archive
\* save_encoded_mesh_to_zip left, and the three names differ from each other
LoadedSavedMesh ==
    /\ last.op = LoadEncodedMesh
    /\ origin[last.path].op = SaveEncodedMesh
    /\ EntryNames(origin[last.path]) = EntryNames(last)
    /\ Cardinality({EntryNames(last)[i] : i \in 1..3}) = 3

\* C8: loading, under the same pairwise distinct entry names, the archive
\* save_encoded_mesh_to_zip wrote for m returns a record equal to m in
\* vertices, indices (None when m had none), vertex_count, vertex_size,
\* index_count (None when m had none) and index_size.
C8_MeshRoundTrip ==
    LoadedSavedMesh =>
        /\ Returned(last)
        /\ last.ret = origin[last.path].args.encoded_mesh

C8_Witness ==
    /\ LoadedSavedMesh
    /\ EntryNames(last)[1] = "custom_vertices.bin"
    /\ origin[last.path].args.encoded_mesh.indices = None
    /\ origin[last.path].args.encoded_mesh.index_count = PyInt(3)
    /\ Returned(last)

\* C9: the archive save_encoded_mesh_to_zip leaves holds the vertices entry,
\* then the indices entry exactly when the mesh has indices, then the metadata
\* entry, and no other; the metadata has vertex_count, vertex_size and
\* index_size, and index_count exactly when the mesh has one.
C9_MeshArchiveEntries ==
    (last.op = SaveEncodedMesh) =>
        LET m == last.args.encoded_mesh
            entries == fs[last.path].entries
            metadata == json_loads(entries[Len(entries)].data).ret
        IN /\ Returned(last)
           /\ [i \in 1..Len(entries) |-> entries[i].name]
                  = <<last.args.vertices_filename>>
                    \o (IF m.indices # None THEN <<last.args.indices_filename>> ELSE <<>>)
                    \o <<last.args.metadata_filename>>
           /\ entries[1].data = m.vertices
           /\ m.indices # None => entries[2].data = m.indices
           /\ Keys(metadata) = {"vertex_count", "vertex_size", "index_size"}
                               \cup (IF m.index_count # None THEN {"index_count"} ELSE {})
           /\ DictGet(metadata, "vertex_count") = m.vertex_count
           /\ DictGet(metadata, "vertex_size") = m.vertex_size
           /\ DictGet(metadata, "index_size") = m.index_size
           /\ m.index_count # None => DictGet(metadata, "index_count") = m.index_count

C9_Witness ==
    /\ last.op = SaveEncodedMesh
    /\ last.args.encoded_mesh.indices = PyBytes(<<>>)
    /\ last.args.encoded_mesh.index_count = None
    /\ Len(fs[last.path].entries) = 3

(***************************************************************************)
(* Properties of the multiple-array archive (SpecArrays).                  *)
(***************************************************************************)
\* the last call loaded the archive save_arrays_to_zip left
LoadedSavedArrays ==
    /\ last.op = "load_arrays_from_zip"
    /\ origin[last.path].op = "save_arrays_to_zip"

\* decode_array(encode_array(original)) of an array
Recoded(original) == decode_array(encode_array(original).ret)

SaveArrays == "save_arrays_to_zip"
LoadArrays == "load_arrays_from_zip"

\* the entry names of an archive, in the order written
EntryNameSeq(entries) == [i \in 1..Len(entries) |-> entries[i].name]

\* C11: the archive save_arrays_to_zip leaves holds one entry <name>.bin per
\* array, with the data encode_array gives for it, then metadata.json and
\* nothing else; metadata.json maps each name to shape, dtype, itemsize and
\* filename, filename being <name>.bin.  A load that returns has decoded, for
\* every name, the bytes of the entry its record's filename names.
C11_ArraysArchiveLayout ==
    /\ (last.op = SaveArrays /\ Returned(last)) =>
           LET arrays == last.args.arrays
               entries == fs[last.path].entries
               metadata == ArraysMetadataAt(last.path)
           IN /\ EntryNameSeq(entries)
                     = [i \in 1..Len(arrays.v) |-> arrays.v[i].k \o ".bin"] \o <<"metadata.json">>
              /\ \A i \in 1..Len(arrays.v) :
                     entries[i].data = encode_array(arrays.v[i].v).ret.data
              /\ Keys(metadata) = Keys(arrays)
              /\ \A name \in Keys(arrays) :
                     /\ Keys(DictGet(metadata, name)) = {"shape", "dtype", "itemsize", "filename"}
                     /\ DictGet(DictGet(metadata, name), "filename") = PyStr(name \o ".bin")
    /\ (last.op = LoadArrays /\ Returned(last)) =>
           \A name \in Keys(last.ret) :
               LET filename == DictGet(DictGet(ArraysMetadataAt(last.path), name), "filename").v
                   payload == ZipRead(fs[last.path].entries, filename).ret.v
               IN DictGet(last.ret, name).values = Tail(payload)

\* a load of the archive whose first record lists moved/<name>.bin
C11_Witness ==
    /\ last.op = LoadArrays
    /\ origin[last.path].op = "env_relist_entry"
    /\ Returned(last)
    /\ DictGet(DictGet(ArraysMetadataAt(last.path), "a"), "filename") = PyStr("moved/a.bin")
    /\ DictGet(last.ret, "a").values = <<7, 8>>

(***************************************************************************)
(* Properties of the single-array file and archive (SpecArrayFile).        *)
(***************************************************************************)
SaveArrayFile == "save_encoded_array_to_file"
LoadArrayFile == "load_encoded_array_from_file"
SaveArrayZip == "save_encoded_array_to_zip"
LoadArrayZip == "load_encoded_array_from_zip"

\* the last call loaded the file save_encoded_array_to_file left
LoadedSavedArrayFile ==
    /\ last.op = LoadArrayFile
    /\ origin[last.path].op = SaveArrayFile
    /\ origin[last.path].exc = None

\* the last call loaded the archive save_encoded_array_to_zip left, with the
\* entry names it was saved under
LoadedSavedArrayZip ==
    /\ last.op = LoadArrayZip
    /\ origin[last.path].op = SaveArrayZip
    /\ origin[last.path].exc = None
    /\ origin[last.path].args.data_filename = last.args.data_filename
    /\ origin[last.path].args.metadata_filename = last.args.metadata_filename

\* the last call loaded what a save of one record left
LoadedSavedArray == LoadedSavedArrayFile \/ LoadedSavedArrayZip

\* the call returned a record equal to e, field by field
ReturnedRecord(call, e) ==
    /\ Returned(call)
    /\ call.ret.data = e.data
    /\ call.ret.shape = e.shape
    /\ call.ret.dtype = e.dtype
    /\ call.ret.itemsize = e.itemsize

\* np.dtype(str(dtype)) is dtype again
NameReadsBack(dtype) == np_dtype(DtypeStr(dtype)) = Return(dtype)

C13_ArrayFileLayout ==
    (last.op = SaveArrayFile /\ Returned(last)) =>
        LET e == last.args.encoded_array
            bytes == fs[last.path].bytes
            L == bytes[1] + 256 * bytes[2] + 65536 * bytes[3] + 16777216 * bytes[4]
            text == Utf8Decode(SubSeq(bytes, 5, 4 + L))
            metadata == json_loads_str(text.ret)
        IN /\ Len(bytes) >= 4 + L
           /\ Returned(text)
           /\ Returned(metadata)
           /\ metadata.ret = JsonValue(JsonDoc(ArrayMetadata(e)))
           /\ Keys(metadata.ret) = {"shape", "dtype", "itemsize"}
           /\ SubSeq(bytes, 5 + L, Len(bytes)) = e.data.v
           /\ Len(bytes) = 4 + L + Len(e.data.v)

\* the record whose dtype name is not ASCII was saved: its metadata is
\* ASCII, the character escaped
C13_Witness ==
    /\ last.op = SaveArrayFile
    /\ Returned(last)
    /\ last.args.encoded_array = StructuredEncodedArray
    /\ \A i \in 1..Len(fs[last.path].bytes) - 2 : fs[last.path].bytes[i] < 128
    /\ \E i \in 1..Len(fs[last.path].bytes) - 5 :
           SubSeq(fs[last.path].bytes, i, i + 5) = <<92, 117, 48, 48, 101, 57>>

\* the kinds raised on a malformed file: a short prefix, bytes that are not
\* UTF-8, text that is not JSON
FormatErrors == {"struct.error", "UnicodeDecodeError", "JSONDecodeError"}

\* the number the first four bytes declare
DeclaredLength(bytes) == StructUnpack(SubSeq(bytes, 1, 4)).ret

\* the file is shorter than its prefix, or than the metadata the prefix declares
FileIsShort(bytes) ==
    \/ Len(bytes) < 4
    \/ Len(bytes) - 4 < DeclaredLength(bytes)

\* the bytes the prefix declares as metadata are not well-formed JSON
MetadataIsMalformed(bytes) ==
    /\ Len(bytes) >= 4
    /\ LET text == Utf8Decode(FileRead(bytes, 4, DeclaredLength(bytes)))
       IN Raised(text) \/ Raised(json_loads_str(text.ret))

\* C14: load_encoded_array_from_file raises a format error and returns no
\* record whenever the file holds fewer bytes after the four-byte prefix than
\* the prefix declares, a file shorter than the prefix included, or the
\* metadata bytes are not well-formed JSON.
C14_ShortFileIsFormatError ==
    (/\ last.op = LoadArrayFile
     /\ fs[last.path].kind = "raw"
     /\ FileIsShort(fs[last.path].bytes) \/ MetadataIsMalformed(fs[last.path].bytes))
        => /\ Raised(last)
           /\ last.exc.kind \in FormatErrors

\* the prefix declares one byte more than the file holds, the bytes it holds
\* are the whole metadata, and the load returns a record without data
C14_Witness ==
    /\ last.op = LoadArrayFile
    /\ origin[last.path].op = "env_declare_more"
    /\ FileIsShort(fs[last.path].bytes)
    /\ Returned(last)
    /\ last.ret.data = PyBytes(<<>>)

(***************************************************************************)
(* Properties of the codec (SpecCodec).                                    *)
(***************************************************************************)
EncodeArrayOp == "encode_array"
DecodeArrayOp == "decode_array"

\* the last call decoded the record encode_array returned for an array
DecodedEncoded ==
    /\ last.op = DecodeArrayOp
    /\ last.args.source # None
    /\ last.args.encoded_array = encode_array(last.args.source).ret

IntegerDtypes == {PyDtype("int32")}

\* the decoded array has the shape and dtype of A and, for an integer dtype,
\* every element of A of magnitude at most 2^24
RoundTripOf(A, decoded) ==
    /\ decoded.shape = A.shape
    /\ decoded.dtype = A.dtype
    /\ Len(decoded.values) = Len(A.values)
    /\ A.dtype \in IntegerDtypes =>
           \A i \in 1..Len(A.values) :
               Abs(A.values[i]) <= Float32Exact => decoded.values[i] = A.values[i]

\* C15: for every array A of a supported dtype and any number of dimensions,
\* decode_array(encode_array(A)) returns an array with the shape and dtype of
\* A, and for an integer dtype every element of magnitude at most 2^24
\* unchanged.
C15_CodecRoundTrip ==
    DecodedEncoded => (Returned(last) /\ RoundTripOf(last.args.source, last.ret))

\* the record of the array without dimensions was given to decode_array,
\* which raised TypeError
C15_Witness ==
    /\ DecodedEncoded
    /\ last.args.source.shape = Shape(<<>>)
    /\ RaisedKind(last, "TypeError")

\* what remains of C15: the round trip of every array that has a dimension
C15_RoundTripWithDimensions ==
    (DecodedEncoded /\ last.args.source.shape # Shape(<<>>))
        => (Returned(last) /\ RoundTripOf(last.args.source, last.ret))

\* the pair of item count and item size of a call of a primitive
CountAndSize(call) == <<call.item_count, call.item_size>>

\* C16: the record encode_array returns for an array has itemsize 4 and a
\* shape whose product is the item count the encoder was given; and when
\* decode_array is given that record, as returned or as loaded after any
\* saves and loads of it, the item count and item size it has for the decoder
\* are those the encoder was given.
C16_SameCountAndSize ==
    /\ (last.op = EncodeArrayOp /\ Returned(last)) =>
           /\ last.ret.itemsize = PyInt(4)
           /\ Product(last.ret.shape.v) = EncoderCallOf(last.args.array, FALSE).item_count
    /\ (last.op = DecodeArrayOp /\ last.args.source # None) =>
           CountAndSize(DecoderCall(last.args.encoded_array))
               = CountAndSize(EncoderCallOf(last.args.source, FALSE))

\* the record of the int32 array of shape (1, 2) was decoded while the file
\* and the archive both hold it, saved from a record that came from that array
C16_Witness ==
    /\ last.op = DecodeArrayOp
    /\ last.args.source = NdArrayOf("b")
    /\ \A p \in FilePaths \cup OnePath : SourceAt(p) = last.args.source
    /\ Returned(last)
    /\ CountAndSize(DecoderCall(last.args.encoded_array)) = <<2, 4>>

\* the exception encode_array raises for an encoder that wrote nothing
EncodingError == Exc("RuntimeError", "Failed to encode array", "")

\* the last call was encode_array and it called the encoder
EncoderWasCalled == last.op = EncodeArrayOp /\ last.args.array.t = "ndarray"

\* C17: encode_array raises its encoding error exactly when the encoder
\* reports zero bytes written, and returns no record then; when the encoder
\* reports n > 0 bytes, the data of the record returned is the first n bytes
\* of the output buffer.
C17_EncodingErrorIffNothingWritten ==
    /\ (last.op = EncodeArrayOp /\ last.exc = EncodingError) => EncoderWasCalled
    /\ EncoderWasCalled =>
           LET call == EncoderCallOf(last.args.array, last.args.fails)
               n == call.result_size
           IN /\ (last.exc = EncodingError) <=> (n = 0)
              /\ n = 0 => last.ret = None
              /\ n > 0 => /\ Returned(last)
                          /\ last.ret.t = "EncodedArray"
                          /\ last.ret.data = PyBytes([i \in 1..n |-> call.buffer[i]])

\* the encoder reported zero bytes for an array of two elements it was given
C17_Witness ==
    /\ EncoderWasCalled
    /\ last.args.array = NdArrayOf("a")
    /\ EncoderCallOf(last.args.array, last.args.fails).result_size = 0
    /\ last.exc = EncodingError

\* the last call was decode_array and it called the decoder
DecoderWasCalled == last.op = DecodeArrayOp /\ last.args.encoded_array.shape # Shape(<<>>)

\* the exception decode_array raises for a status of the decoder
DecodingError(status) ==
    Exc("RuntimeError", "Failed to decode array: error code " \o ToString(status), "")

\* C18: decode_array raises its decoding error exactly when the decoder
\* returns a nonzero status; the error carries that status, and no array,
\* neither the zero-filled destination nor a partly decoded one, is returned.
C18_DecodingErrorIffNonzeroStatus ==
    /\ (last.op = DecodeArrayOp /\ RaisedKind(last, "RuntimeError")) => DecoderWasCalled
    /\ DecoderWasCalled =>
           LET status == DecoderCall(last.args.encoded_array).status
           IN /\ RaisedKind(last, "RuntimeError") <=> (status # 0)
              /\ status # 0 => (last.exc = DecodingError(status) /\ last.ret = None)
              /\ status = 0 => Returned(last)

\* the decoder returned -3 for a record with an item less than its shape says
C18_Witness ==
    /\ DecoderWasCalled
    /\ DecoderCall(last.args.encoded_array).status = 0 - 3
    /\ last.exc.msg = "Failed to decode array: error code -3"
    /\ last.ret = None

(***************************************************************************)
(* Properties of the calls made step by step, under SpecThreads.           *)
(***************************************************************************)

\* the thread's call has returned or raised
Ended(t) == threads[t].pc = "done"

\* C19: when a save or a load has returned or raised, no handle it opened is
\* still open, also when it raised between two writes or reads of entries.
C19_NoHandleLeftOpen ==
    \A t \in Threads : ~InCall(t) => threads[t].handles = {}

\* a bundle save raised after it wrote its first entry, and holds no handle
C19_Witness ==
    \E t \in Threads :
        /\ Ended(t)
        /\ threads[t].call.op = "save_combined_data_to_zip"
        /\ threads[t].k >= 1
        /\ threads[t].result.exc # None
        /\ threads[t].handles = {}

\* what the call gives when it runs alone on the file that was at its path:
\* its result and the file it leaves
Alone(call, before) ==
    IF call.op \in SaveOps
    THEN LET plan == SavePlanOf[call.op]
         IN [result |-> [exc |-> plan.exc, ret |-> plan.ret],
             file |-> plan.write]
    ELSE [result |-> LoadResult(call.op, before), file |-> before]

\* C20: two threads make calls on distinct paths, interleaved step by step;
\* each call that has ended has the result it gives alone on the file that
\* was at its path when it began, and the file now at its path is the one it
\* leaves alone.
C20_DistinctPathsAsAlone ==
    \A t \in Threads :
        Ended(t) =>
            /\ threads[t].result = Alone(threads[t].call, threads[t].before).result
            /\ fs[threads[t].call.path] = Alone(threads[t].call, threads[t].before).file

\* a save at one path and a load at the other ran interleaved and both have
\* ended: the save left its archive, the load returned the mesh an earlier
\* save left at its path
C20_Witness ==
    /\ \A t \in Threads : Ended(t) /\ threads[t].concurrent
    /\ threads[1].call.path # threads[2].call.path
    /\ threads[1].call.op = "save_arrays_to_zip"
    /\ fs["p.zip"] = SavePlanOf["save_arrays_to_zip"].write
    /\ threads[2].call.op = "load_encoded_mesh_from_zip"
    /\ threads[2].result = Return(IndexedMesh)

(***************************************************************************)
(* Properties of calls made step by step on one path, under SpecSamePath.  *)
(***************************************************************************)

\* the complete archives the saves of SamePathOps leave
SaveOutputs == {SavePlanOf[op].write : op \in SamePathOps \cap SaveOps}

\* C23: no lock is taken on a path: a call that has reached the point of
\* opening its archive opens it at once, whatever handle the other thread
\* holds on the same path and wherever that thread is in its writes.
C23_OpenNeverWaits ==
    \A t \in Threads :
        threads[t].pc = "open" => ENABLED (OpenForWrite(t) \/ OpenForRead(t))

\* a load began when a complete mesh archive was at the path and failed,
\* because the other thread had meanwhile opened the path for writing and
\* has written one entry: the file is the complete output of no save
C23_Witness ==
    /\ threads[1].pc = "body"
    /\ threads[1].call.op = "save_encoded_mesh_to_zip"
    /\ threads[1].k = 1
    /\ fs["p.zip"] \notin SaveOutputs
    /\ Ended(2)
    /\ threads[2].call.op = "load_encoded_mesh_from_zip"
    /\ threads[2].before = SavePlanOf["save_encoded_mesh_to_zip"].write
    /\ threads[2].result.exc # None
    /\ Returned(LoadResult("load_encoded_mesh_from_zip", threads[2].before))

\* two saves on the path have both ended and the file is the output of neither
C23_NeitherSaveReached ==
    /\ \A t \in Threads : Ended(t) /\ threads[t].call.op \in SaveOps
    /\ fs["p.zip"] \notin SaveOutputs

(***************************************************************************)
(* Properties of saves that follow saves on one path, under SpecReplace.   *)
(***************************************************************************)

\* the archive a successful save writes, from its arguments alone
OutputOf(call) ==
    IF call.op = "save_encoded_mesh_to_zip"
    THEN ZipOf(MeshEntries(call.args.encoded_mesh, call.args.vertices_filename,
                           call.args.indices_filename, call.args.metadata_filename).entries)
    ELSE ZipOf(ArraysEntries(call.args.arrays).entries)

\* the file at p was left by a save that succeeded
LeftBySave(p) ==
    /\ origin[p].op \in {"save_encoded_mesh_to_zip", "save_arrays_to_zip"}
    /\ origin[p].exc = None

\* C25: the archive a successful save leaves holds exactly the entries of
\* that save, whatever was at the path before; and a mesh loaded from an
\* archive that the save of a mesh without indices left has indices None.
C25_SaveReplacesTarget ==
    \A p \in OnePath :
        LeftBySave(p) =>
            /\ fs[p] = OutputOf(origin[p])
            /\ (/\ last.op = "load_encoded_mesh_from_zip"
                /\ origin[p].op = "save_encoded_mesh_to_zip"
                /\ origin[p].args.encoded_mesh.indices = None)
               => (Returned(last) /\ last.ret.indices = None)

\* a mesh without indices was saved over an archive that held indices.bin,
\* and the load gives indices None
C25_Witness ==
    /\ last.op = "load_encoded_mesh_from_zip"
    /\ Returned(last)
    /\ last.ret # None
    /\ last.ret.indices = None
    /\ LeftBySave("p.zip")
    /\ origin["p.zip"].op = "save_encoded_mesh_to_zip"
    /\ origin["p.zip"].args.encoded_mesh.indices = None
    /\ origin["p.zip"].replaced.kind = "zip"
    /\ "indices.bin" \in namelist(origin["p.zip"].replaced.entries)
    /\ "indices.bin" \notin namelist(fs["p.zip"].entries)

(***************************************************************************)
(* Entry names written by one save, under SpecCombined.                    *)
(***************************************************************************)

\* no two entries of the archive have the same name
DistinctNames(entries) ==
    \A i, j \in 1..Len(entries) : entries[i].name = entries[j].name => i = j

\* C26: the entries one successful save wrote have pairwise distinct names,
\* for every choice of mesh_dir and arrays_dir, equal ones included.
C26_EntryNamesDistinct ==
    (last.op = SaveCombined /\ last.exc = None) => DistinctNames(fs[last.path].entries)

\* a bundle saved with mesh_dir equal to arrays_dir holds two entries named
\* d/metadata.json, and the load with the same names, which reads the arrays'
\* metadata where it expects the mesh's, fails
C26_Witness ==
    /\ last.op = LoadCombined
    /\ last.args.mesh_dir = "d" /\ last.args.arrays_dir = "d"
    /\ IsSavedBundle(last.path)
    /\ origin[last.path].args.mesh_dir = "d" /\ origin[last.path].args.arrays_dir = "d"
    /\ Cardinality({i \in 1..Len(fs[last.path].entries) :
                       fs[last.path].entries[i].name = "d/metadata.json"}) = 2
    /\ Raised(last)

\* with mesh_dir different from arrays_dir the names written are distinct
C26_DistinctWhenDirsDiffer ==
    (last.op = SaveCombined /\ last.exc = None /\ last.args.mesh_dir # last.args.arrays_dir)
        => DistinctNames(fs[last.path].entries)

\* the last load raised the failure that names a missing entry
RaisedMissingEntry ==
    /\ last.op = LoadCombined
    /\ last.exc = Exc("ValueError", "Missing expected file in zip", "KeyError")

\* C30: load_combined_data_from_zip raises 'Missing expected file in zip'
\* only when the archive lacks an entry that the load asks for.
C30_MissingEntryOnlyWhenAbsent == RaisedMissingEntry => LoadedWithEntryMissing

\* every entry the load asks for is in the archive, the JSON it reads as the
\* mesh metadata has no vertex_count, and the load raises 'Missing expected
\* file in zip'
C30_Witness ==
    /\ RaisedMissingEntry
    /\ ~LoadedWithEntryMissing
    /\ LET mesh_metadata ==
               json_loads(ZipRead(fs[last.path].entries,
                                  last.args.mesh_dir \o "/metadata.json").ret)
       IN /\ Returned(mesh_metadata)
          /\ ~DictHas(mesh_metadata.ret, "vertex_count")

(***************************************************************************)
(* Saves of arrays that fail on the way, under SpecPartial.                *)
(***************************************************************************)

\* the position of the first item of the map that encode_array refuses, or
\* one past the last item when there is none
FirstRefused(arrays) ==
    LET refused == {i \in 1..Len(arrays.v) : Raised(encode_array(arrays.v[i].v))}
    IN IF refused = {} THEN Len(arrays.v) + 1
       ELSE CHOOSE i \in refused : \A j \in refused : i <= j

\* the entries <name>.bin of the items before the k-th, in order
BinEntriesBefore(arrays, k) ==
    [i \in 1..(k - 1) |-> Entry(arrays.v[i].k \o ".bin",
                               encode_array(arrays.v[i].v).ret.data)]

\* the file at p was left by a save_arrays_to_zip that raised
LeftByFailedSave(p) == origin[p].op = SaveArrays /\ origin[p].exc # None

\* C27: when encode_array refuses the k-th array, save_arrays_to_zip raises
\* its exception and the archive at the path, whatever was there, holds the
\* k-1 entries <name>.bin written before and no metadata.json; a load of
\* that archive raises.
C27_FailedSaveLeavesBinEntries ==
    /\ (last.op = SaveArrays /\ FirstRefused(last.args.arrays) <= Len(last.args.arrays.v)) =>
           LET arrays == last.args.arrays
               k == FirstRefused(arrays)
           IN /\ last.exc = encode_array(arrays.v[k].v).exc
              /\ fs[last.path] = ZipOf(BinEntriesBefore(arrays, k))
              /\ "metadata.json" \notin namelist(fs[last.path].entries)
    /\ (last.op = LoadArrays /\ LeftByFailedSave(last.path)) => Raised(last)

\* the third array of a map was refused: the archive holds a.bin and b.bin
\* alone and the load of it raised KeyError for metadata.json
C27_Witness ==
    /\ LeftByFailedSave("p.zip")
    /\ FirstRefused(origin["p.zip"].args.arrays) = 3
    /\ Len(fs["p.zip"].entries) = 2
    /\ last.op = LoadArrays
    /\ RaisedKind(last, "KeyError")

(***************************************************************************)
(* The extent decode_array asks the primitive to write, under SpecForeign. *)
(***************************************************************************)

\* C24: whenever decode_array calls the primitive, the bytes it asks it to
\* write, product(shape) * itemsize, fit the destination it allocated,
\* product(shape) float32 items.
C24_WriteWithinDestination ==
    DecoderWasCalled => ~WritesPastDestination(DecoderCall(last.args.encoded_array))

\* a file of another producer with itemsize 8 was loaded and the record
\* given to decode_array: 16 bytes are asked for a destination of 8
C24_Witness ==
    /\ DecoderWasCalled
    /\ origin["e.bin"].op = "env_foreign_record"
    /\ load_encoded_array_from_file(fs["e.bin"]) = Return(last.args.encoded_array)
    /\ DecoderCall(last.args.encoded_array).item_count * last.args.encoded_array.itemsize.v = 16
    /\ DecoderCall(last.args.encoded_array).item_count * Float32ItemSize = 8

\* records that encode_array returned never ask for more than the destination
C24_EncodedRecordsFit ==
    (DecoderWasCalled /\ last.args.source # None)
        => ~WritesPastDestination(DecoderCall(last.args.encoded_array))


(***************************************************************************)
(* The counts of a Mesh.                                                   *)
(***************************************************************************)
\* the object id was made and has indices
Indexed(id) == heap[id] # None /\ heap[id].indices # None

\* the last call was a method of Mesh
MethodCalled == last.op \in MeshMethods

\* C21: every indexed Mesh, after its construction and after every sequence
\* of optimize_vertex_cache, optimize_overdraw, optimize_vertex_fetch and
\* simplify calls, has vertex_count equal to the number of vertex records in
\* vertices and index_count equal to the length of indices; a call that
\* returns returns the object it was called on, which is the object it changed.
C21_CountsMatchArrays ==
    /\ \A id \in Objects :
          Indexed(id) =>
              /\ heap[id].vertex_count = ArrayLen(heap[id].vertices)
              /\ heap[id].index_count = ArrayLen(heap[id].indices)
    /\ MethodCalled /\ Returned(last) =>
          last.ret = Ref(last.args.self)

\* simplify dropped the second triangle of the quad, and optimize_vertex_fetch
\* then dropped the vertex only that triangle used
C21_Witness ==
    /\ last.op = "optimize_vertex_fetch" /\ Returned(last)
    /\ last.args.before.vertex_count = 4
    /\ heap[last.args.self].vertex_count = 3
    /\ heap[last.args.self].index_count = 3
    /\ heap[last.args.self].vertices.values = <<0, 0, 1, 0, 0, 1>>

\* C28: a call of optimize_vertex_cache, optimize_overdraw,
\* optimize_vertex_fetch or simplify on a Mesh whose indices is None raises
\* ValueError, invokes no external primitive and leaves the object as it
\* was; a Mesh made without indices has index_count 0.
C28_NoIndicesRaisesAndKeeps ==
    /\ MethodCalled /\ last.args.before.indices = None =>
          /\ Raised(last) /\ last.exc.kind = "ValueError"
          /\ last.args.invoked = <<>>
          /\ heap[last.args.self] = last.args.before
    /\ last.op = "Mesh" /\ last.args.indices = None =>
          /\ heap[last.ret.id].indices = None
          /\ heap[last.ret.id].index_count = 0

\* simplify was called on a mesh made without indices
C28_Witness ==
    /\ last.op = "simplify"
    /\ last.args.before.indices = None
    /\ last.args.before.vertex_count = 4
    /\ Raised(last)

\* a method call on an indexed mesh invokes its primitive and returns
C28_IndexedCallsInvoke ==
    MethodCalled /\ last.args.before.indices # None =>
        Returned(last) /\ last.args.invoked = <<last.op>>


(***************************************************************************)
(* Mesh.decode of a dictionary.                                            *)
(***************************************************************************)
\* the last call was Mesh.decode of a dictionary
DecodedDict == last.op = "Mesh.decode" /\ last.args.encoded_data.t = "dict"

\* the dictionary of the last call carries an index stream
CarriesIndexStream == DictGetOrNone(last.args.encoded_data, "indices") # None

\* vertex_count and vertex_size were supplied to the last call
CountsSupplied == last.args.vertex_count # None /\ last.args.vertex_size # None

\* the last call handed the index stream to its decoder
IndexStreamDecoded ==
    \E k \in 1..Len(last.args.invoked) : last.args.invoked[k] = "decode_index_buffer"

\* C29: Mesh.decode of a dictionary raises ValueError with nothing decoded
\* when vertex_count or vertex_size is not supplied; with an index stream in
\* the dictionary and index_count not supplied it raises no error for that
\* (an error can come from the vertex decoder only) and the Mesh it returns
\* has indices None and index_count 0; the index stream is decoded exactly
\* when the vertices were decoded and both the stream and index_count are
\* there.
C29_LegacyDecode ==
    DecodedDict =>
        /\ (last.args.vertex_count = None \/ last.args.vertex_size = None) =>
              /\ Raised(last) /\ last.exc.kind = "ValueError"
              /\ last.args.invoked = <<>>
        /\ (CountsSupplied /\ CarriesIndexStream /\ last.args.index_count = None) =>
              /\ Returned(last) =>
                    /\ heap[last.ret.id].indices = None
                    /\ heap[last.ret.id].index_count = 0
              /\ Raised(last) =>
                    /\ last.exc.kind = "RuntimeError"
                    /\ last.args.invoked = <<"decode_vertex_buffer">>
        /\ IndexStreamDecoded <=>
              /\ CountsSupplied /\ CarriesIndexStream /\ last.args.index_count # None
              /\ last.args.invoked = <<"decode_vertex_buffer", "decode_index_buffer">>

\* a dictionary with an index stream was decoded without index_count, and
\* the Mesh returned has the four vertices of the stream
C29_Witness ==
    /\ DecodedDict /\ Returned(last)
    /\ CarriesIndexStream /\ last.args.index_count = None
    /\ heap[last.ret.id].vertex_count = 4
    /\ heap[last.ret.id].indices = None

\* a dictionary with an index stream and index_count decodes to an indexed Mesh
C29_IndexedWitness ==
    /\ DecodedDict /\ Returned(last)
    /\ heap[last.ret.id].index_count = 6
    /\ heap[last.ret.id].indices.values = <<0, 1, 2, 1, 3, 2>>


(***************************************************************************)
(* The round trip of a Mesh through an archive.                            *)
(***************************************************************************)
\* the k-th vertex record of the mesh, k counted from 0
VertexRecord(mesh, k) ==
    SubSeq(mesh.vertices.values, k * RowLen(mesh.vertices) + 1,
           (k + 1) * RowLen(mesh.vertices))

\* the triangles of the mesh, each the set of the coordinates of its vertices
TriangleSet(mesh) ==
    {{VertexRecord(mesh, Triangle(mesh.indices.values, k)[j]) : j \in 1..3} :
        k \in 1..(mesh.index_count \div 3)}

\* the last call loaded the archive a save_mesh_to_zip of an indexed mesh
\* of whole triangles left
LoadedSavedTriangles ==
    /\ last.op = "load_mesh_from_zip"
    /\ origin[last.path].op = "save_mesh_to_zip"
    /\ origin[last.path].args.mesh.indices # None
    /\ origin[last.path].args.mesh.index_count % 3 = 0

\* C22: load_mesh_from_zip after save_mesh_to_zip of an indexed Mesh whose
\* index count is a multiple of 3 returns a Mesh with the vertex_count, the
\* index_count and the set of triangles of the mesh saved, each triangle the
\* set of the coordinates of its three vertices.
C22_MeshArchiveRoundTrip ==
    LoadedSavedTriangles =>
        /\ Returned(last)
        /\ LET m == origin[last.path].args.mesh
               loaded == heap[last.ret.id]
           IN /\ loaded.vertex_count = m.vertex_count
              /\ loaded.index_count = m.index_count
              /\ loaded.indices # None
              /\ TriangleSet(loaded) = TriangleSet(m)

\* the quad was saved and loaded: its two triangles came back with their
\* indices in another order
C22_Witness ==
    /\ LoadedSavedTriangles /\ Returned(last)
    /\ origin[last.path].args.mesh.index_count = 6
    /\ heap[last.ret.id].indices.values # origin[last.path].args.mesh.indices.values
    /\ Cardinality(TriangleSet(heap[last.ret.id])) = 2

\* a mesh whose indices are not whole triangles is not saved: the encoder
\* refuses it and no archive is written
C22_PartialTriangleNotSaved ==
    (last.op = "save_mesh_to_zip" /\ last.args.mesh.index_count % 3 # 0) =>
        /\ Raised(last) /\ last.exc.kind = "RuntimeError"
        /\ origin[last.path] # last

====
